---- MODULE Spec2Model ----
(***************************************************************************)
(* Persistence-and-projection layer of the budget application.             *)
(*                                                                         *)
(* The store (SQLite tables mois / depenses / config), the in-memory       *)
(* canonical list (_depenses), the displayed projection                    *)
(* (_displayed_depenses) and the operations of BudgetModel that keep them  *)
(* together.  Strings are sequences of one-character strings so that       *)
(* strip(), lower() and the substring test are computed.  Amounts are      *)
(* counted in tenths.                                                      *)
(***************************************************************************)
EXTENDS Integers, Sequences, FiniteSets, TLC

VARIABLES db, mois_actuel, depenses, displayed_depenses, heap,
          current_search_term, current_sort_key, observers, fichier, ctl, last

vars == <<db, mois_actuel, depenses, displayed_depenses, heap,
          current_search_term, current_sort_key, observers, fichier, ctl, last>>

(***************************************************************************)
(* Bounds                                                                  *)
(***************************************************************************)
\* largest value of the AUTOINCREMENT counter of table mois
MaxMoisId == 2
\* largest value of the AUTOINCREMENT counter of table depenses
MaxDepenseId == 2
\* the same counter where three records are needed (projection, legacy path)
MaxDepenseIdProj == 3
\* the same counter where a period of two records is copied
MaxDepenseIdDup == 4

(***************************************************************************)
(* Strings                                                                 *)
(***************************************************************************)
RECURSIVE lstrip(_)
lstrip(s) == IF s # <<>> /\ Head(s) = " " THEN lstrip(Tail(s)) ELSE s

RECURSIVE rstrip(_)
rstrip(s) == IF s # <<>> /\ s[Len(s)] = " " THEN rstrip(SubSeq(s, 1, Len(s) - 1)) ELSE s

strip(s) == rstrip(lstrip(s))

lower_char(c) == CASE c = "A" -> "a"
                   [] c = "B" -> "b"
                   [] c = "D" -> "d"
                   [] c = "J" -> "j"
                   [] c = "F" -> "f"
                   [] OTHER -> c

lower(s) == [i \in 1..Len(s) |-> lower_char(s[i])]

\* Python's  sub in s
Contains(sub, s) == \E i \in 0..(Len(s) - Len(sub)) : SubSeq(s, i + 1, i + Len(sub)) = sub

ord(c) == CASE c = " " -> 32
            [] c = "A" -> 65
            [] c = "B" -> 66
            [] c = "D" -> 68
            [] c = "F" -> 70
            [] c = "J" -> 74
            [] c = "a" -> 97
            [] c = "b" -> 98
            [] c = "d" -> 100
            [] c = "f" -> 102
            [] c = "j" -> 106
            [] OTHER -> 0

\* Python's  a < b  on str
RECURSIVE StrLess(_, _)
StrLess(a, b) == IF b = <<>> THEN FALSE
                 ELSE IF a = <<>> THEN TRUE
                 ELSE IF ord(Head(a)) # ord(Head(b)) THEN ord(Head(a)) < ord(Head(b))
                 ELSE StrLess(Tail(a), Tail(b))

(***************************************************************************)
(* Numbers: float(montant.replace(',', '.'))                               *)
(***************************************************************************)
replace_comma(s) == IF s = "2,5" THEN "2.5" ELSE s

\* float() of the texts the model feeds in, in tenths; err stands for ValueError
float(s) == CASE s = "0"   -> [err |-> FALSE, v |-> 0]
              [] s = "10"  -> [err |-> FALSE, v |-> 100]
              [] s = "2.5" -> [err |-> FALSE, v |-> 25]
              [] s = "4"   -> [err |-> FALSE, v |-> 40]
              [] s = "-3"  -> [err |-> FALSE, v |-> -30]
              [] OTHER     -> [err |-> TRUE, v |-> 0]

(***************************************************************************)
(* DataValidator                                                           *)
(***************************************************************************)

validate_mois_data(nom, salaire) ==
    LET nomErr == IF nom = <<>> \/ strip(nom) = <<>> THEN {"Le nom du mois est requis"} ELSE {}
        f == IF salaire = "" THEN [err |-> FALSE, v |-> 0] ELSE float(replace_comma(salaire))
        salErr == IF f.err THEN {"doit etre un nombre valide"}
                  ELSE IF f.v < 0 THEN {"ne peut pas etre negatif"} ELSE {}
    IN [is_valid |-> nomErr \cup salErr = {},
        errors |-> nomErr \cup salErr,
        nom |-> strip(nom),
        salaire |-> f.v]

validate_expense_data(nom, montant, categorie) ==
    LET f == IF montant = "" THEN [err |-> FALSE, v |-> 0] ELSE float(replace_comma(montant))
        errs == IF f.err THEN {"doit etre un nombre valide"}
                ELSE IF f.v < 0 THEN {"ne peut pas etre negatif"} ELSE {}
    IN [is_valid |-> errs = {},
        errors |-> errs,
        nom |-> IF nom # <<>> THEN strip(nom) ELSE <<>>,
        montant |-> f.v,
        categorie |-> IF categorie # "" THEN categorie ELSE "Autres"]

(***************************************************************************)
(* SQLite store.  db.mois and db.depenses are the rows of the two tables,  *)
(* db.seq_mois / db.seq_depenses the AUTOINCREMENT counters                *)
(* (sqlite_sequence, which a rollback restores with the rows),             *)
(* db.last_mois the config row 'last_mois' (<<>> when absent).             *)
(* A statement returns [err, db]: err is "" or the sqlite3 exception.      *)
(***************************************************************************)
\* JSON null / Python None in a text column
NULL == <<"None">>

\* a column nom without the UNIQUE constraint
UniqueNomViolated_without_constraint(d, nom, except_id) == FALSE

\* nom TEXT UNIQUE NOT NULL
UniqueNomViolated(d, nom, except_id) ==
    \E r \in d.mois : r.nom = nom /\ r.id # except_id

\* INSERT INTO mois (nom, salaire) VALUES (?, ?)
sql_insert_mois(d, nom, salaire) ==
    IF nom = NULL \/ UniqueNomViolated(d, nom, 0)
    THEN [err |-> "IntegrityError", db |-> d]
    ELSE [err |-> "",
          db |-> [d EXCEPT !.mois = @ \cup {[id |-> d.seq_mois + 1, nom |-> nom, salaire |-> salaire]},
                           !.seq_mois = @ + 1]]

\* INSERT INTO depenses (mois_id, nom, ..., est_fixe) VALUES (...); the
\* foreign key is declared but PRAGMA foreign_keys is never switched on
sql_insert_depense(d, mois_id, dep) ==
    IF dep.nom = NULL
    THEN [err |-> "IntegrityError", db |-> d]
    ELSE [err |-> "",
          db |-> [d EXCEPT !.depenses = @ \cup {[id |-> d.seq_depenses + 1,
                                                 mois_id |-> mois_id,
                                                 nom |-> dep.nom,
                                                 montant |-> dep.montant,
                                                 categorie |-> dep.categorie,
                                                 date_depense |-> dep.date_depense,
                                                 est_credit |-> dep.est_credit,
                                                 effectue |-> dep.effectue,
                                                 emprunte |-> dep.emprunte,
                                                 est_fixe |-> dep.est_fixe]},
                           !.seq_depenses = @ + 1]]

\* the Depense a SELECT row is turned into
Depense(row) == [id |-> row.id, nom |-> row.nom, montant |-> row.montant,
                 categorie |-> row.categorie, date_depense |-> row.date_depense,
                 est_credit |-> row.est_credit, effectue |-> row.effectue,
                 emprunte |-> row.emprunte, est_fixe |-> row.est_fixe]

\* rows in rowid order
RECURSIVE ById(_)
ById(rows) == IF rows = {} THEN <<>>
              ELSE LET r == CHOOSE x \in rows : \A y \in rows : x.id <= y.id
                   IN <<r>> \o ById(rows \ {r})

get_depenses_by_mois(d, mois_id) ==
    LET rows == ById({r \in d.depenses : r.mois_id = mois_id})
    IN [i \in 1..Len(rows) |-> Depense(rows[i])]

\* <<>> for None
get_mois_by_name(d, nom) ==
    IF \E r \in d.mois : r.nom = nom
    THEN <<CHOOSE r \in d.mois : r.nom = nom>>
    ELSE <<>>

get_mois_by_id(d, mois_id) ==
    IF \E r \in d.mois : r.id = mois_id
    THEN <<CHOOSE r \in d.mois : r.id = mois_id>>
    ELSE <<>>

(***************************************************************************)
(* DatabaseManager.  Each method returns [exc, db, ...]: exc is "" or      *)
(* "DatabaseError", exists tells that the message says the name exists.    *)
(* fail injects an sqlite3.Error (disk full, locked file, ...) into the    *)
(* numbered statement of the method; 0 injects none.                       *)
(***************************************************************************)
db_create_mois(d, nom, salaire, fail) ==
    LET r == sql_insert_mois(d, nom, salaire)
    IN IF fail # 0 THEN [exc |-> "DatabaseError", exists |-> FALSE, db |-> d, id |-> 0]
       ELSE IF r.err # "" THEN [exc |-> "DatabaseError", exists |-> TRUE, db |-> d, id |-> 0]
       ELSE [exc |-> "", exists |-> FALSE, db |-> r.db, id |-> r.db.seq_mois]

\* a delete_mois that relies on ON DELETE CASCADE, which the store does not
\* enforce: only the period row goes
db_delete_mois_without_cascade(d, nom, fail) ==
    LET row == get_mois_by_name(d, nom)
        mois_id == row[1].id
        d2 == [d EXCEPT !.mois = {r \in @ : r.id # mois_id}]
    IN IF row = <<>> THEN [exc |-> "", db |-> d, deleted |-> FALSE]
       ELSE IF fail # 0 THEN [exc |-> "DatabaseError", db |-> d, deleted |-> FALSE]
       ELSE [exc |-> "", db |-> d2, deleted |-> TRUE]

\* two DELETEs in the implicit transaction of one connection
db_delete_mois(d, nom, fail) ==
    LET row == get_mois_by_name(d, nom)
        mois_id == row[1].id
        d1 == [d EXCEPT !.depenses = {r \in @ : r.mois_id # mois_id}]
        d2 == [d1 EXCEPT !.mois = {r \in @ : r.id # mois_id}]
    IN IF row = <<>> THEN [exc |-> "", db |-> d, deleted |-> FALSE]
       ELSE IF fail # 0 THEN [exc |-> "DatabaseError", db |-> d, deleted |-> FALSE]
       ELSE [exc |-> "", db |-> d2, deleted |-> TRUE]

db_update_mois_salaire(d, mois_id, salaire, fail) ==
    IF fail # 0 THEN [exc |-> "DatabaseError", db |-> d]
    ELSE [exc |-> "",
          db |-> [d EXCEPT !.mois = {IF r.id = mois_id THEN [r EXCEPT !.salaire = salaire] ELSE r : r \in @}]]

db_update_mois_name(d, mois_id, new_name, fail) ==
    IF fail # 0 THEN [exc |-> "DatabaseError", exists |-> FALSE, db |-> d]
    ELSE IF (\E r \in d.mois : r.id = mois_id) /\ UniqueNomViolated(d, new_name, mois_id)
    THEN [exc |-> "DatabaseError", exists |-> TRUE, db |-> d]
    ELSE [exc |-> "", exists |-> FALSE,
          db |-> [d EXCEPT !.mois = {IF r.id = mois_id THEN [r EXCEPT !.nom = new_name] ELSE r : r \in @}]]

db_create_depense(d, mois_id, depense, fail) ==
    LET r == sql_insert_depense(d, mois_id, depense)
    IN IF fail # 0 \/ r.err # "" THEN [exc |-> "DatabaseError", db |-> d, id |-> 0]
       ELSE [exc |-> "", db |-> r.db, id |-> r.db.seq_depenses]

\* UPDATE ... WHERE id = ?  (no row matched is not an error)
db_update_depense(d, depense, fail) ==
    IF fail # 0 THEN [exc |-> "DatabaseError", db |-> d]
    ELSE [exc |-> "",
          db |-> [d EXCEPT !.depenses =
                    {IF r.id = depense.id
                     THEN [r EXCEPT !.nom = depense.nom, !.montant = depense.montant,
                                    !.categorie = depense.categorie,
                                    !.date_depense = depense.date_depense,
                                    !.effectue = depense.effectue,
                                    !.emprunte = depense.emprunte,
                                    !.est_credit = depense.est_credit,
                                    !.est_fixe = depense.est_fixe]
                     ELSE r : r \in @}]]

db_delete_depense(d, depense_id, fail) ==
    IF fail # 0 THEN [exc |-> "DatabaseError", db |-> d]
    ELSE [exc |-> "", db |-> [d EXCEPT !.depenses = {r \in @ : r.id # depense_id}]]

db_delete_all_depenses_by_mois(d, mois_id, fail) ==
    IF fail # 0 THEN [exc |-> "DatabaseError", db |-> d]
    ELSE [exc |-> "", db |-> [d EXCEPT !.depenses = {r \in @ : r.mois_id # mois_id}]]

\* save_config swallows sqlite3.Error
save_config_last_mois(d, value) == [d EXCEPT !.last_mois = <<value>>]

\* the first n INSERTs of the copy loop, stopping at the first error
RECURSIVE insert_depenses(_, _, _, _, _)
insert_depenses(d, mois_id, deps, n, fail) ==
    IF n = 0 THEN [err |-> "", db |-> d, done |-> 0]
    ELSE LET prev == insert_depenses(d, mois_id, deps, n - 1, fail)
             r == sql_insert_depense(prev.db, mois_id, deps[n])
         IN IF prev.err # "" THEN prev
            ELSE IF fail = n THEN [err |-> "OperationalError", db |-> prev.db, done |-> n - 1]
            ELSE IF r.err # "" THEN [err |-> r.err, db |-> prev.db, done |-> n - 1]
            ELSE [err |-> "", db |-> r.db, done |-> n]

\* a duplicate_mois whose statements commit one by one: what was written
\* before the failing INSERT stays
db_duplicate_mois_without_rollback(d, original_mois_id, new_mois_name, fail) ==
    LET original_mois == get_mois_by_id(d, original_mois_id)
        m == sql_insert_mois(d, new_mois_name, original_mois[1].salaire)
        original_depenses == get_depenses_by_mois(d, original_mois_id)
        c == insert_depenses(m.db, m.db.seq_mois, original_depenses,
                             Len(original_depenses), fail - 1)
        failed(exists, db_, done) ==
            [exc |-> "DatabaseError", is_success |-> FALSE, exists |-> exists, db |-> db_,
             done |-> done, tx |-> <<"rollback", "rollback">>]
    IN IF original_mois = <<>>
       THEN [exc |-> "", is_success |-> FALSE, exists |-> FALSE, db |-> d, done |-> 0,
             tx |-> <<"commit">>]
       ELSE IF fail = 1 THEN failed(FALSE, d, 0)
       ELSE IF m.err # "" THEN failed(TRUE, d, 0)
       ELSE IF c.err # "" THEN failed(c.err = "IntegrityError", c.db, c.done)
       ELSE [exc |-> "", is_success |-> TRUE, exists |-> FALSE, db |-> c.db, done |-> c.done,
             tx |-> <<"commit", "commit">>]

\* BEGIN TRANSACTION ... commit / rollback inside "with sqlite3.connect()
\* as conn".  fail = 1 breaks the INSERT into mois, fail = k + 1 the INSERT
\* of the k-th copy.  tx lists what ends the transaction on the connection,
\* in order: the explicit conn.commit() or conn.rollback() of the body, then
\* the commit (normal exit) or rollback (exit by exception) the connection's
\* context manager issues when the block is left.  The return for a missing
\* original leaves the block normally with no explicit call.
db_duplicate_mois(d, original_mois_id, new_mois_name, fail) ==
    LET original_mois == get_mois_by_id(d, original_mois_id)
        m == sql_insert_mois(d, new_mois_name, original_mois[1].salaire)
        original_depenses == get_depenses_by_mois(d, original_mois_id)
        c == insert_depenses(m.db, m.db.seq_mois, original_depenses,
                             Len(original_depenses), fail - 1)
        failed(exists, done) ==
            [exc |-> "DatabaseError", is_success |-> FALSE, exists |-> exists, db |-> d,
             done |-> done, tx |-> <<"rollback", "rollback">>]
    IN IF original_mois = <<>>
       THEN [exc |-> "", is_success |-> FALSE, exists |-> FALSE, db |-> d, done |-> 0,
             tx |-> <<"commit">>]
       ELSE IF fail = 1 THEN failed(FALSE, 0)
       ELSE IF m.err # "" THEN failed(TRUE, 0)
       ELSE IF c.err # "" THEN failed(c.err = "IntegrityError", c.done)
       ELSE [exc |-> "", is_success |-> TRUE, exists |-> FALSE, db |-> c.db, done |-> c.done,
             tx |-> <<"commit", "commit">>]

\* an import_new_mois whose statements commit one by one
db_import_new_mois_without_rollback(d, nom_mois, salaire, deps, fail) ==
    LET m == sql_insert_mois(d, nom_mois, salaire)
        rows == [i \in 1..Len(deps) |-> [deps[i] EXCEPT !.est_fixe = FALSE]]
        c == insert_depenses(m.db, m.db.seq_mois, rows, Len(rows), fail - 1)
        failed(exists, db_, done) ==
            [exc |-> "DatabaseError", exists |-> exists, db |-> db_, done |-> done,
             tx |-> <<"rollback", "rollback">>]
    IN IF fail = 1 THEN failed(FALSE, d, 0)
       ELSE IF m.err # "" THEN failed(TRUE, d, 0)
       ELSE IF c.err # "" THEN failed(c.err = "IntegrityError", c.db, c.done)
       ELSE [exc |-> "", exists |-> FALSE, db |-> c.db, done |-> c.done,
             tx |-> <<"commit", "commit">>]

\* same transaction shape; the INSERT names no est_fixe column (DEFAULT 0).
\* exists: the DatabaseError raised says the name already exists (the
\* handler of sqlite3.IntegrityError, whichever statement raised it)
db_import_new_mois(d, nom_mois, salaire, deps, fail) ==
    LET m == sql_insert_mois(d, nom_mois, salaire)
        rows == [i \in 1..Len(deps) |-> [deps[i] EXCEPT !.est_fixe = FALSE]]
        c == insert_depenses(m.db, m.db.seq_mois, rows, Len(rows), fail - 1)
        failed(exists, done) ==
            [exc |-> "DatabaseError", exists |-> exists, db |-> d, done |-> done,
             tx |-> <<"rollback", "rollback">>]
    IN IF fail = 1 THEN failed(FALSE, 0)
       ELSE IF m.err # "" THEN failed(TRUE, 0)
       ELSE IF c.err # "" THEN failed(c.err = "IntegrityError", c.done)
       ELSE [exc |-> "", exists |-> FALSE, db |-> c.db, done |-> c.done,
             tx |-> <<"commit", "commit">>]

(***************************************************************************)
(* Observable.  An observer is [name, bad]: bad is the set of event types  *)
(* on which its on_model_changed raises.                                   *)
(***************************************************************************)
add_observer(obs, observer) ==
    IF \E i \in 1..Len(obs) : obs[i] = observer THEN obs ELSE Append(obs, observer)

\* called lists the observers whose on_model_changed was called, in order;
\* the exception of one leaves the loop
RECURSIVE notify_observers(_, _)
notify_observers(obs, event_type) ==
    IF obs = <<>> THEN [called |-> <<>>, raised |-> FALSE]
    ELSE IF event_type \in Head(obs).bad THEN [called |-> <<Head(obs).name>>, raised |-> TRUE]
    ELSE LET rest == notify_observers(Tail(obs), event_type)
         IN [called |-> <<Head(obs).name>> \o rest.called, raised |-> rest.raised]

(***************************************************************************)
(* BudgetModel.  m is the object's state:                                  *)
(*   m.db, m.mois_actuel (<<>> for None), m.depenses and                   *)
(*   m.displayed_depenses (lists of object references, an object being     *)
(*   named by the id of its row), m.heap (the fields of each referenced    *)
(*   Depense object), m.current_search_term, m.current_sort_key.           *)
(* A method returns [m, result, events, db_exc]: result is "success",      *)
(* "error" (an error Result) or "raise" (an exception left the method),    *)
(* events the notify_observers calls made, db_exc whether the store raised.*)
(* bad is the set of event types on which an observer raises.              *)
(***************************************************************************)
Ret(m, result, events) == [m |-> m, result |-> result, events |-> events, db_exc |-> FALSE]

RetDb(m, events) == [m |-> m, result |-> "error", events |-> events, db_exc |-> TRUE]

\* datetime.strptime(s, '%d/%m/%Y') as a day number; err stands for ValueError
strptime(s) == CASE s = "01/02/2024" -> [err |-> FALSE, v |-> 20240201]
                 [] s = "15/01/2024" -> [err |-> FALSE, v |-> 20240115]
                 [] OTHER -> [err |-> TRUE, v |-> 0]

\* datetime.now().strftime('%d/%m/%Y')
Today == "15/01/2024"

DateKeys == {"date_desc", "date_asc"}

NamedSortKeys == {"montant_desc", "montant_asc", "date_desc", "date_asc", "nom_asc",
                  "nom_desc", "effectue_desc", "effectue_asc", "est_fixe_desc", "type"}

\* the branch of the if / elif chain a key takes
Branch(sort_key) == IF sort_key \in NamedSortKeys THEN sort_key ELSE "date_desc"

\* a sorts strictly before b under list.sort(key=..., reverse=...)
KeyLess(sort_key, a, b) ==
    LET k == Branch(sort_key)
    IN CASE k = "montant_desc" -> a.montant > b.montant
         [] k = "montant_asc" -> a.montant < b.montant
         [] k = "date_desc" -> strptime(a.date_depense).v > strptime(b.date_depense).v
         [] k = "date_asc" -> strptime(a.date_depense).v < strptime(b.date_depense).v
         [] k = "nom_asc" -> StrLess(lower(a.nom), lower(b.nom))
         [] k = "nom_desc" -> StrLess(lower(b.nom), lower(a.nom))
         [] k = "effectue_desc" -> a.effectue /\ ~b.effectue
         [] k = "effectue_asc" -> ~a.effectue /\ b.effectue
         [] k = "est_fixe_desc" -> a.est_fixe /\ ~b.est_fixe
         [] k = "type" -> \/ a.est_credit /\ ~b.est_credit
                          \/ a.est_credit = b.est_credit /\ StrLess(a.nom, b.nom)

\* the key function raises for some element
KeyRaises(sort_key, h, list) ==
    /\ Branch(sort_key) \in DateKeys
    /\ \E i \in 1..Len(list) : strptime(h[list[i]].date_depense).err

\* an insertion that places x in front of the elements of equal key
RECURSIVE InsertBeforeEqual(_, _, _, _)
InsertBeforeEqual(sort_key, h, sorted, x) ==
    IF sorted = <<>> THEN <<x>>
    ELSE IF ~KeyLess(sort_key, h[Head(sorted)], h[x]) THEN <<x>> \o sorted
    ELSE <<Head(sorted)>> \o InsertBeforeEqual(sort_key, h, Tail(sorted), x)

\* x placed behind every element it does not sort strictly before
RECURSIVE InsertStable(_, _, _, _)
InsertStable(sort_key, h, sorted, x) ==
    IF sorted = <<>> THEN <<x>>
    ELSE IF KeyLess(sort_key, h[x], h[Head(sorted)]) THEN <<x>> \o sorted
    ELSE <<Head(sorted)>> \o InsertStable(sort_key, h, Tail(sorted), x)

\* list.sort is stable, also with reverse=True
RECURSIVE StableSort(_, _, _)
StableSort(sort_key, h, list) ==
    IF list = <<>> THEN <<>>
    ELSE InsertStable(sort_key, h,
                      StableSort(sort_key, h, SubSeq(list, 1, Len(list) - 1)),
                      list[Len(list)])

\* a key function that raises leaves the list as it was
list_sort(sort_key, h, list) ==
    IF KeyRaises(sort_key, h, list) THEN list ELSE StableSort(sort_key, h, list)

Matches(term, dep) == term = <<>> \/ Contains(term, lower(dep.nom))

\* sum() of a list of numbers
RECURSIVE sum(_)
sum(numbers) == IF numbers = <<>> THEN 0 ELSE Head(numbers) + sum(Tail(numbers))

\* a summary whose remaining amount starts from the period's salaire
_calculate_summary_from_salaire(m, expense_list) ==
    LET h == m.heap
        Montants(hh, selected) == sum([i \in 1..Len(selected) |-> hh[selected[i]].montant])
        debits == SelectSeq(expense_list, LAMBDA x : ~h[x].est_credit)
        salaire == IF m.mois_actuel = <<>> THEN 0 ELSE m.mois_actuel[1].salaire
    IN [nombre_depenses |-> Len(expense_list),
        total_depenses |-> Montants(h, debits),
        total_effectue |-> Montants(h, SelectSeq(debits, LAMBDA x : h[x].effectue)),
        total_non_effectue |-> Montants(h, SelectSeq(debits, LAMBDA x : ~h[x].effectue)),
        total_emprunte |-> Montants(h, SelectSeq(expense_list, LAMBDA x : h[x].emprunte)),
        total_depenses_fixes |-> Montants(h, SelectSeq(debits, LAMBDA x : h[x].est_fixe)),
        total_revenus |-> Montants(h, SelectSeq(expense_list, LAMBDA x : h[x].est_credit)),
        argent_restant |-> salaire - Montants(h, debits)]

\* Montants is sum(d.montant for d in expense_list if ...), selected naming
\* the objects kept
_calculate_summary_for_list(m, expense_list) ==
    LET h == m.heap
        Montants(hh, selected) == sum([i \in 1..Len(selected) |-> hh[selected[i]].montant])
        total_depenses_affiches ==
            Montants(h, SelectSeq(expense_list, LAMBDA x : ~h[x].est_credit))
        total_effectue_affiches ==
            Montants(h, SelectSeq(expense_list, LAMBDA x : h[x].effectue /\ ~h[x].est_credit))
        total_emprunte_affiches ==
            Montants(h, SelectSeq(expense_list, LAMBDA x : h[x].emprunte))
        total_depenses_fixes_affiches ==
            Montants(h, SelectSeq(expense_list, LAMBDA x : ~h[x].est_credit /\ h[x].est_fixe))
        total_revenus_liste ==
            Montants(h, SelectSeq(expense_list, LAMBDA x : h[x].est_credit))
    IN [nombre_depenses |-> Len(expense_list),
        total_depenses |-> total_depenses_affiches,
        total_effectue |-> total_effectue_affiches,
        total_non_effectue |-> total_depenses_affiches - total_effectue_affiches,
        total_emprunte |-> total_emprunte_affiches,
        total_depenses_fixes |-> total_depenses_fixes_affiches,
        total_revenus |-> total_revenus_liste,
        argent_restant |-> total_revenus_liste - total_depenses_affiches]

\* the DTO of the whole display, None when no period is loaded; total is
\* sum(d.montant for d in self._depenses if ...) of the get_total_* methods
get_display_data(m) ==
    LET h == m.heap
        total(keep(_)) ==
            LET selected == SelectSeq(m.depenses, keep)
            IN sum([i \in 1..Len(selected) |-> h[selected[i]].montant])
        salaire == m.mois_actuel[1].salaire
        total_depenses == total(LAMBDA x : ~h[x].est_credit)
        total_effectue == total(LAMBDA x : h[x].effectue /\ ~h[x].est_credit)
    IN IF m.mois_actuel = <<>> THEN NULL
       ELSE [nom |-> m.mois_actuel[1].nom,
             salaire |-> salaire,
             nombre_depenses |-> Len(m.depenses),
             depenses |-> m.displayed_depenses,
             total_depenses |-> total_depenses,
             argent_restant |-> salaire - total_depenses,
             total_effectue |-> total_effectue,
             total_non_effectue |-> total_depenses - total_effectue,
             total_emprunte |-> total(LAMBDA x : h[x].emprunte),
             total_revenus |-> total(LAMBDA x : h[x].est_credit),
             total_depenses_fixes |-> total(LAMBDA x : ~h[x].est_credit /\ h[x].est_fixe)]

\* get_argent_restant is get_total_revenus() - get_total_depenses()
get_summary_data(m) ==
    LET h == m.heap
        total(keep(_)) ==
            LET selected == SelectSeq(m.depenses, keep)
            IN sum([i \in 1..Len(selected) |-> h[selected[i]].montant])
        total_depenses == total(LAMBDA x : ~h[x].est_credit)
        total_effectue == total(LAMBDA x : h[x].effectue /\ ~h[x].est_credit)
        total_revenus == total(LAMBDA x : h[x].est_credit)
    IN [nombre_depenses |-> Len(m.depenses),
        total_depenses |-> total_depenses,
        argent_restant |-> total_revenus - total_depenses,
        total_effectue |-> total_effectue,
        total_non_effectue |-> total_depenses - total_effectue,
        total_emprunte |-> total(LAMBDA x : h[x].emprunte),
        total_revenus |-> total_revenus,
        total_depenses_fixes |-> total(LAMBDA x : ~h[x].est_credit /\ h[x].est_fixe)]

\* summary is what the display_updated notification carries with the list
_refresh_displayed_expenses(m, bad) ==
    LET temp_list == SelectSeq(m.depenses, LAMBDA x : Matches(m.current_search_term, m.heap[x]))
        sorted == list_sort(m.current_sort_key, m.heap, temp_list)
    IN [m |-> [m EXCEPT !.displayed_depenses = sorted],
        raised |-> "display_updated" \in bad,
        events |-> <<"display_updated">>,
        summary |-> _calculate_summary_for_list(m, sorted)]

\* a filter that keeps the search text as typed
filter_depenses_by_name_case_sensitive(m, search_text, bad) ==
    LET r == _refresh_displayed_expenses([m EXCEPT !.current_search_term = search_text], bad)
    IN [m |-> r.m, result |-> IF r.raised THEN "raise" ELSE "success", events |-> r.events,
        db_exc |-> FALSE, data |-> r.summary]

filter_depenses_by_name(m, search_text, bad) ==
    LET r == _refresh_displayed_expenses([m EXCEPT !.current_search_term = lower(search_text)], bad)
    IN [m |-> r.m, result |-> IF r.raised THEN "raise" ELSE "success", events |-> r.events,
        db_exc |-> FALSE, data |-> r.summary]

sort_depenses(m, sort_key, bad) ==
    LET r == _refresh_displayed_expenses([m EXCEPT !.current_sort_key = sort_key], bad)
    IN [m |-> r.m, result |-> IF r.raised THEN "raise" ELSE "success", events |-> r.events,
        db_exc |-> FALSE, data |-> r.summary]

\* 1-based position of the object in the list, 0 when absent
IndexOf(list, x) == IF \E i \in 1..Len(list) : list[i] = x
                    THEN CHOOSE i \in 1..Len(list) : list[i] = x /\ \A j \in 1..(i - 1) : list[j] # x
                    ELSE 0

Pop(list, i) == SubSeq(list, 1, i - 1) \o SubSeq(list, i + 1, Len(list))

remove_expense_by_id(m, depense_id, fail, bad) ==
    LET d == db_delete_depense(m.db, depense_id, fail)
        m1 == [m EXCEPT !.db = d.db]
        index_to_remove == IndexOf(m1.depenses, depense_id)
        m2 == IF index_to_remove # 0
              THEN [m1 EXCEPT !.depenses = Pop(@, index_to_remove)]
              ELSE m1
        ev == IF index_to_remove # 0 THEN <<"expense_removed">> ELSE <<>>
        r == _refresh_displayed_expenses(m2, bad)
    IN IF d.exc # "" THEN RetDb([m EXCEPT !.db = d.db], <<>>)
       ELSE IF index_to_remove # 0 /\ "expense_removed" \in bad THEN Ret(m2, "raise", ev)
       ELSE Ret(r.m, IF r.raised THEN "raise" ELSE "success", ev \o r.events)

\* a clear_all_data that forgets the active period
clear_all_data_keeping_mois(m) == [m EXCEPT !.depenses = <<>>]

clear_all_data(m) == [m EXCEPT !.mois_actuel = <<>>, !.depenses = <<>>]

_save_last_mois(m, nom_mois) == [m EXCEPT !.db = save_config_last_mois(@, nom_mois)]

create_mois(m, nom, salaire_str, fail, bad) ==
    LET v == validate_mois_data(nom, salaire_str)
        c == db_create_mois(m.db, v.nom, v.salaire, fail)
        m1 == [m EXCEPT !.db = c.db,
                        !.mois_actuel = <<[id |-> c.id, nom |-> v.nom, salaire |-> v.salaire]>>,
                        !.depenses = <<>>]
        m2 == _save_last_mois(m1, v.nom)
    IN IF ~v.is_valid THEN Ret(m, "error", <<>>)
       ELSE IF c.exc # "" THEN RetDb([m EXCEPT !.db = c.db], <<>>)
       ELSE Ret(m2, IF "mois_created" \in bad THEN "error" ELSE "success", <<"mois_created">>)

\* fail = 1 breaks get_mois_by_name, fail = 2 get_depenses_by_mois
load_mois(m, nom, fail, bad) ==
    LET mois == get_mois_by_name(m.db, nom)
        deps == get_depenses_by_mois(m.db, mois[1].id)
        ids == [i \in 1..Len(deps) |-> deps[i].id]
        m1 == [m EXCEPT !.mois_actuel = mois,
                        !.depenses = ids,
                        !.displayed_depenses = ids,
                        !.heap = [x \in {deps[i].id : i \in 1..Len(deps)} |->
                                    deps[CHOOSE i \in 1..Len(deps) : deps[i].id = x]],
                        !.current_search_term = <<>>]
        r == _refresh_displayed_expenses(m1, bad)
        m2 == _save_last_mois(r.m, nom)
    IN IF fail = 1 THEN RetDb(m, <<>>)
       ELSE IF mois = <<>> THEN Ret(m, "error", <<>>)
       ELSE IF fail = 2 THEN RetDb(m, <<>>)
       ELSE IF r.raised THEN Ret(r.m, "error", r.events)
       ELSE Ret(m2, IF "mois_loaded" \in bad THEN "error" ELSE "success",
                r.events \o <<"mois_loaded">>)

\* get_config('last_mois') is the name save_config stored, None before any;
\* first is <<row>> for the head of get_all_mois (ORDER BY date_creation
\* DESC, equal timestamps in no specified order), <<>> for an empty list
load_data_from_last_session(m, first, fail, bad) ==
    LET last_mois == m.db.last_mois
    IN IF last_mois # <<>> /\ last_mois[1] # <<>> THEN load_mois(m, last_mois[1], fail, bad)
       ELSE IF first # <<>> THEN load_mois(m, first[1].nom, fail, bad)
       ELSE Ret(m, "error", <<>>)

delete_mois(m, nom, fail, bad) ==
    LET d == db_delete_mois(m.db, nom, fail)
        m1 == [m EXCEPT !.db = d.db]
        active == m.mois_actuel # <<>> /\ m.mois_actuel[1].nom = nom
        m2 == IF active THEN clear_all_data(m1) ELSE m1
        ev == IF active THEN <<"mois_cleared">> ELSE <<>>
    IN IF d.exc # "" THEN RetDb(m1, <<>>)
       ELSE IF ~d.deleted THEN Ret(m1, "error", <<>>)
       ELSE IF active /\ "mois_cleared" \in bad THEN Ret(m2, "error", ev)
       ELSE Ret(m2, IF "mois_deleted" \in bad THEN "error" ELSE "success",
                ev \o <<"mois_deleted">>)

\* reset_status is accepted and never used
duplicate_mois(m, new_name, reset_status, fail, fail_load, bad) ==
    LET r == db_duplicate_mois(m.db, m.mois_actuel[1].id, strip(new_name), fail)
        l == load_mois([m EXCEPT !.db = r.db], strip(new_name), fail_load, bad)
        m1 == IF r.is_success THEN l.m ELSE [m EXCEPT !.db = r.db]
        ev == IF r.is_success THEN l.events ELSE <<>>
    IN IF m.mois_actuel = <<>> THEN Ret(m, "error", <<>>)
       ELSE IF new_name = <<>> \/ strip(new_name) = <<>> THEN Ret(m, "error", <<>>)
       ELSE IF r.exc # "" THEN RetDb([m EXCEPT !.db = r.db], <<>>)
       ELSE Ret(m1, IF "mois_duplicated" \in bad THEN "error" ELSE "success",
                ev \o <<"mois_duplicated">>)

\* a rename_mois that writes the name in memory before the store answers
rename_mois_assigning_first(m, new_name, fail, bad) ==
    LET validated_new_name == strip(new_name)
        u == db_update_mois_name(m.db, m.mois_actuel[1].id, validated_new_name, fail)
        m0 == [m EXCEPT !.db = u.db, !.mois_actuel[1].nom = validated_new_name]
        m1 == _save_last_mois(m0, validated_new_name)
    IN IF m.mois_actuel = <<>> THEN Ret(m, "error", <<>>)
       ELSE IF m.mois_actuel[1].nom = strip(new_name) THEN Ret(m, "success", <<>>)
       ELSE IF "Le nom du mois est requis" \in validate_mois_data(new_name, "0").errors THEN Ret(m, "error", <<>>)
       ELSE IF u.exc # "" THEN RetDb(m0, <<>>)
       ELSE Ret(m1, IF "mois_renamed" \in bad THEN "error" ELSE "success", <<"mois_renamed">>)

\* str(self.mois_actuel.salaire) is always a number, so only the name can be
\* reported missing
rename_mois(m, new_name, fail, bad) ==
    LET original_name == m.mois_actuel[1].nom
        validated_new_name == strip(new_name)
        u == db_update_mois_name(m.db, m.mois_actuel[1].id, validated_new_name, fail)
        m1 == _save_last_mois([m EXCEPT !.db = u.db,
                                        !.mois_actuel[1].nom = validated_new_name],
                              validated_new_name)
    IN IF m.mois_actuel = <<>> THEN Ret(m, "error", <<>>)
       ELSE IF original_name = strip(new_name) THEN Ret(m, "success", <<>>)
       ELSE IF "Le nom du mois est requis" \in validate_mois_data(new_name, "0").errors THEN Ret(m, "error", <<>>)
       ELSE IF u.exc # "" THEN RetDb([m EXCEPT !.db = u.db], <<>>)
       ELSE Ret(m1, IF "mois_renamed" \in bad THEN "error" ELSE "success", <<"mois_renamed">>)

\* the name is the loaded period's, so validation fails on the amount only
set_salaire(m, salaire_str, fail, bad) ==
    LET v == validate_mois_data(m.mois_actuel[1].nom, salaire_str)
        m1 == [m EXCEPT !.mois_actuel[1].salaire = v.salaire]
        u == db_update_mois_salaire(m.db, m.mois_actuel[1].id, v.salaire, fail)
        m2 == [m1 EXCEPT !.db = u.db]
    IN IF m.mois_actuel = <<>> THEN Ret(m, "error", <<>>)
       ELSE IF ~v.is_valid THEN Ret(m, "error", <<>>)
       ELSE IF u.exc # "" THEN RetDb(m2, <<>>)
       ELSE Ret(m2, IF "salaire_updated" \in bad THEN "error" ELSE "success",
                <<"salaire_updated">>)

\* an add_expense that shows the record whatever the search term is
add_expense_ignoring_search(m, f, fail, bad) ==
    LET v == validate_expense_data(f.nom, f.montant_str, f.categorie)
        depense == [nom |-> v.nom, montant |-> v.montant, categorie |-> v.categorie,
                    date_depense |-> "", est_credit |-> FALSE, effectue |-> f.effectue,
                    emprunte |-> f.emprunte, est_fixe |-> f.est_fixe]
        c == db_create_depense(m.db, m.mois_actuel[1].id, depense, fail)
        m1 == [m EXCEPT !.db = c.db,
                        !.depenses = Append(@, c.id),
                        !.heap = (c.id :> ([id |-> c.id] @@ depense)) @@ @,
                        !.displayed_depenses = Append(@, c.id)]
    IN IF m.mois_actuel = <<>> THEN Ret(m, "error", <<>>)
       ELSE IF c.exc # "" THEN RetDb([m EXCEPT !.db = c.db], <<>>)
       ELSE Ret(m1, IF "expense_added" \in bad THEN "error" ELSE "success", <<"expense_added">>)

\* f carries the arguments nom, montant_str, categorie, effectue, emprunte,
\* est_fixe; invalid data is logged and the record is created all the same
add_expense(m, f, fail, bad) ==
    LET v == validate_expense_data(f.nom, f.montant_str, f.categorie)
        depense == [nom |-> v.nom, montant |-> v.montant, categorie |-> v.categorie,
                    date_depense |-> "", est_credit |-> FALSE, effectue |-> f.effectue,
                    emprunte |-> f.emprunte, est_fixe |-> f.est_fixe]
        c == db_create_depense(m.db, m.mois_actuel[1].id, depense, fail)
        obj == [id |-> c.id] @@ depense
        m1 == [m EXCEPT !.db = c.db,
                        !.depenses = Append(@, c.id),
                        !.heap = (c.id :> obj) @@ @,
                        !.displayed_depenses =
                            IF Matches(m.current_search_term, obj) THEN Append(@, c.id) ELSE @]
    IN IF m.mois_actuel = <<>> THEN Ret(m, "error", <<>>)
       ELSE IF c.exc # "" THEN RetDb([m EXCEPT !.db = c.db], <<>>)
       ELSE Ret(m1, IF "expense_added" \in bad THEN "error" ELSE "success", <<"expense_added">>)

\* an update_expense that takes index for a position of _depenses
update_expense_by_position(m, index, f, fail) ==
    LET id == m.depenses[index]
        v == validate_expense_data(f.nom, f.montant_str, f.categorie)
        original_depense == [m.heap[id] EXCEPT !.nom = v.nom, !.montant = v.montant,
                                               !.categorie = v.categorie,
                                               !.date_depense = f.date_depense,
                                               !.effectue = f.effectue,
                                               !.emprunte = f.emprunte,
                                               !.est_fixe = f.est_fixe]
        u == db_update_depense(m.db, original_depense, fail)
        m2 == [m EXCEPT !.heap[id] = original_depense, !.db = u.db]
    IN IF ~(index \in 1..Len(m.displayed_depenses)) THEN Ret(m, "error", <<>>)
       ELSE IF ~(index \in 1..Len(m.depenses)) THEN Ret(m, "error", <<>>)
       ELSE IF ~v.is_valid THEN Ret(m, "error", <<>>)
       ELSE IF u.exc # "" THEN RetDb(m2, <<>>)
       ELSE Ret(m2, "success", <<>>)

\* index is a position of the displayed list (1-based here); f carries nom,
\* montant_str, date_depense, categorie, effectue, emprunte, est_fixe.
\* The object found in _depenses is written before the store is.
update_expense(m, index, f, fail) ==
    LET id == m.displayed_depenses[index]
        v == validate_expense_data(f.nom, f.montant_str, f.categorie)
        original_depense == [m.heap[id] EXCEPT !.nom = v.nom, !.montant = v.montant,
                                               !.categorie = v.categorie,
                                               !.date_depense = f.date_depense,
                                               !.effectue = f.effectue,
                                               !.emprunte = f.emprunte,
                                               !.est_fixe = f.est_fixe]
        m1 == [m EXCEPT !.heap[id] = original_depense]
        u == db_update_depense(m.db, original_depense, fail)
        m2 == [m1 EXCEPT !.db = u.db]
    IN IF ~(index \in 1..Len(m.displayed_depenses)) THEN Ret(m, "error", <<>>)
       ELSE IF IndexOf(m.depenses, id) = 0 THEN Ret(m, "error", <<>>)
       ELSE IF ~v.is_valid THEN Ret(m, "error", <<>>)
       ELSE IF u.exc # "" THEN RetDb(m2, <<>>)
       ELSE Ret(m2, "success", <<>>)

\* index is a position of _depenses (1-based here)
remove_expense(m, index, fail, bad) ==
    LET d == db_delete_depense(m.db, m.depenses[index], fail)
        m1 == [m EXCEPT !.db = d.db, !.depenses = Pop(@, index)]
    IN IF ~(index \in 1..Len(m.depenses)) THEN Ret(m, "error", <<>>)
       ELSE IF d.exc # "" THEN RetDb([m EXCEPT !.db = d.db], <<>>)
       ELSE Ret(m1, IF "expense_removed" \in bad THEN "error" ELSE "success",
                <<"expense_removed">>)

clear_all_expenses(m, fail, bad) ==
    LET d == db_delete_all_depenses_by_mois(m.db, m.mois_actuel[1].id, fail)
        m1 == [m EXCEPT !.db = d.db, !.depenses = <<>>]
    IN IF m.mois_actuel = <<>> THEN Ret(m, "error", <<>>)
       ELSE IF d.exc # "" THEN RetDb([m EXCEPT !.db = d.db], <<>>)
       ELSE Ret(m1, IF "all_expenses_cleared" \in bad THEN "error" ELSE "success",
                <<"all_expenses_cleared">>)

(***************************************************************************)
(* ImportExportService.  A JSON file is [found, data]; data maps the keys  *)
(* present to their values, data.depenses being a list of such maps.       *)
(***************************************************************************)
\* dict.get(key, default)
Get(dict, key, default) == IF key \in DOMAIN dict THEN dict[key] ELSE default

\* an import that reads every record as a debit
svc_import_from_json_as_debits(d, file, new_mois_name, fail) ==
    LET data == file.data
        depenses_a_importer ==
            [i \in 1..Len(data.depenses) |->
                [nom |-> Get(data.depenses[i], "nom", <<"D">>),
                 montant |-> Get(data.depenses[i], "montant", 0),
                 categorie |-> Get(data.depenses[i], "categorie", "Autres"),
                 date_depense |-> Get(data.depenses[i], "date_depense", Today),
                 est_credit |-> FALSE,
                 effectue |-> Get(data.depenses[i], "effectue", FALSE),
                 emprunte |-> Get(data.depenses[i], "emprunte", FALSE),
                 est_fixe |-> FALSE]]
        r == db_import_new_mois(d, new_mois_name, Get(Get(data, "mois", <<>>), "salaire", 0),
                                depenses_a_importer, fail)
    IN IF ~file.found \/ ~("depenses" \in DOMAIN data)
       THEN [is_success |-> FALSE, db_exc |-> FALSE, db |-> d, count |-> 0]
       ELSE IF r.exc # "" THEN [is_success |-> FALSE, db_exc |-> TRUE, db |-> r.db, count |-> 0]
       ELSE [is_success |-> TRUE, db_exc |-> FALSE, db |-> r.db,
             count |-> Len(depenses_a_importer)]

svc_import_from_json(d, file, new_mois_name, fail) ==
    LET data == file.data
        salaire == Get(Get(data, "mois", <<>>), "salaire", 0)
        depenses_a_importer ==
            [i \in 1..Len(data.depenses) |->
                [nom |-> Get(data.depenses[i], "nom", <<"D">>),
                 montant |-> Get(data.depenses[i], "montant", 0),
                 categorie |-> Get(data.depenses[i], "categorie", "Autres"),
                 date_depense |-> Get(data.depenses[i], "date_depense", Today),
                 est_credit |-> Get(data.depenses[i], "est_credit", FALSE),
                 effectue |-> Get(data.depenses[i], "effectue", FALSE),
                 emprunte |-> Get(data.depenses[i], "emprunte", FALSE),
                 est_fixe |-> FALSE]]
        r == db_import_new_mois(d, new_mois_name, salaire, depenses_a_importer, fail)
    IN IF ~file.found THEN [is_success |-> FALSE, db_exc |-> FALSE, db |-> d, count |-> 0]
       ELSE IF ~("depenses" \in DOMAIN data)
       THEN [is_success |-> FALSE, db_exc |-> FALSE, db |-> d, count |-> 0]
       ELSE IF r.exc # "" THEN [is_success |-> FALSE, db_exc |-> TRUE, db |-> r.db, count |-> 0]
       ELSE [is_success |-> TRUE, db_exc |-> FALSE, db |-> r.db,
             count |-> Len(depenses_a_importer)]

\* the Result of the service is returned whatever load_mois answers
import_from_json(m, file, new_mois_name, fail, fail_load, bad) ==
    LET result == svc_import_from_json(m.db, file, strip(new_mois_name), fail)
        l == load_mois([m EXCEPT !.db = result.db], strip(new_mois_name), fail_load, bad)
    IN IF new_mois_name = <<>> \/ strip(new_mois_name) = <<>> THEN Ret(m, "error", <<>>)
       ELSE IF ~result.is_success
       THEN [m |-> [m EXCEPT !.db = result.db], result |-> "error", events |-> <<>>,
             db_exc |-> result.db_exc]
       ELSE [m |-> l.m, result |-> "success", events |-> l.events, db_exc |-> FALSE,
             data |-> [count |-> result.count]]

\* file is what the path holds before the call; fail stands for open() raising
\* asdict(dep) names every field of the Depense
svc_export_to_json(d, mois_id, file, fail) ==
    LET mois_details == get_mois_by_id(d, mois_id)
        deps == get_depenses_by_mois(d, mois_id)
        asdict(dep) == [id |-> dep.id, nom |-> dep.nom, montant |-> dep.montant,
                        categorie |-> dep.categorie, date_depense |-> dep.date_depense,
                        est_credit |-> dep.est_credit, effectue |-> dep.effectue,
                        emprunte |-> dep.emprunte, est_fixe |-> dep.est_fixe]
        data_to_export == [mois |-> [nom |-> mois_details[1].nom,
                                     salaire |-> mois_details[1].salaire],
                           depenses |-> [i \in 1..Len(deps) |-> asdict(deps[i])]]
    IN IF mois_details = <<>> THEN [is_success |-> FALSE, fichier |-> file]
       ELSE IF fail # 0 THEN [is_success |-> FALSE, fichier |-> file]
       ELSE [is_success |-> TRUE, fichier |-> [found |-> TRUE, data |-> data_to_export]]

export_to_json(m, file, fail) ==
    LET result == svc_export_to_json(m.db, m.mois_actuel[1].id, file, fail)
    IN IF m.mois_actuel = <<>>
       THEN [m |-> m, result |-> "error", events |-> <<>>, db_exc |-> FALSE, fichier |-> file]
       ELSE [m |-> m, result |-> IF result.is_success THEN "success" ELSE "error",
             events |-> <<>>, db_exc |-> FALSE, fichier |-> result.fichier]

(***************************************************************************)
(* A worksheet is [found, header, debit, credit, rows]: header tells       *)
(* whether a row holding "Libellé" and "Date" exists, debit and credit     *)
(* whether the columns "Débit euros" and "Crédit euros" do, rows are the   *)
(* rows under the header.  A row is [nom, date_val, debit, credit]: nom is *)
(* NULL and date_val is "" for an empty cell, an amount cell is            *)
(* [t |-> "none"], [t |-> "num", v |-> tenths] or [t |-> "str", s |-> text]*)
(***************************************************************************)
\* truthy is the truth value Python gives a cell, cell_float is float(cell) of
\* a cell that is not None, excel_row is the Depense the loop body appends for
\* a row (<<>> when it continues), operations[k] the list after k rows
svc_import_from_excel(d, sheet, new_mois_name, fail) ==
    LET truthy(cell) == CASE cell.t = "none" -> FALSE
                          [] cell.t = "num" -> cell.v # 0
                          [] OTHER -> cell.s # ""
        cell_float(cell) == IF cell.t = "num" THEN [err |-> FALSE, v |-> cell.v]
                            ELSE float(cell.s)
        excel_row(row) ==
            LET debit_val == IF sheet.debit THEN row.debit ELSE [t |-> "none"]
                credit_val == IF sheet.credit THEN row.credit ELSE [t |-> "none"]
                c == cell_float(credit_val)
                dv == cell_float(debit_val)
                op(montant, est_credit) ==
                    [nom |-> strip(row.nom), montant |-> montant, categorie |-> "Autres",
                     date_depense |-> row.date_val, est_credit |-> est_credit,
                     effectue |-> TRUE, emprunte |-> FALSE, est_fixe |-> FALSE]
                debit_branch == IF sheet.debit /\ truthy(debit_val)
                                THEN IF dv.err THEN <<>>
                                     ELSE IF dv.v > 0 THEN <<op(dv.v, FALSE)>> ELSE <<>>
                                ELSE <<>>
            IN IF row.nom = NULL \/ row.nom = <<>> \/ row.date_val = "" THEN <<>>
               ELSE IF sheet.credit /\ truthy(credit_val)
               THEN IF c.err THEN <<>>
                    ELSE IF c.v > 0 THEN <<op(c.v, TRUE)>> ELSE debit_branch
               ELSE debit_branch
        operations[k \in 0..Len(sheet.rows)] ==
            IF k = 0 THEN <<>> ELSE operations[k - 1] \o excel_row(sheet.rows[k])
        operations_a_importer == operations[Len(sheet.rows)]
        credits == SelectSeq(operations_a_importer, LAMBDA op : op.est_credit)
        salaire_initial == sum([i \in 1..Len(credits) |-> credits[i].montant])
        r == db_import_new_mois(d, new_mois_name, salaire_initial, operations_a_importer, fail)
    IN IF ~sheet.found THEN [is_success |-> FALSE, db_exc |-> FALSE, db |-> d, count |-> 0]
       ELSE IF ~sheet.header
       THEN [is_success |-> FALSE, db_exc |-> FALSE, db |-> d, count |-> 0]
       ELSE IF sheet.rows = <<>>
       THEN [is_success |-> FALSE, db_exc |-> FALSE, db |-> d, count |-> 0]
       ELSE IF r.exc # "" THEN [is_success |-> FALSE, db_exc |-> TRUE, db |-> r.db, count |-> 0]
       ELSE [is_success |-> TRUE, db_exc |-> FALSE, db |-> r.db,
             count |-> Len(operations_a_importer)]

\* the new period is not loaded
import_from_excel(m, sheet, new_mois_name, fail) ==
    LET result == svc_import_from_excel(m.db, sheet, strip(new_mois_name), fail)
    IN IF new_mois_name = <<>> \/ strip(new_mois_name) = <<>> THEN Ret(m, "error", <<>>)
       ELSE IF ~result.is_success
       THEN [m |-> [m EXCEPT !.db = result.db], result |-> "error", events |-> <<>>,
             db_exc |-> result.db_exc]
       ELSE [m |-> [m EXCEPT !.db = result.db], result |-> "success", events |-> <<>>,
             db_exc |-> FALSE, data |-> [count |-> result.count]]


(***************************************************************************)
(* The path main.py wires: model.BudgetModel over utils.DatabaseManager    *)
(* and utils.ImportExportService.  Table depenses has no est_fixe column,  *)
(* the model keeps no displayed list, and every store call opens its own   *)
(* connection and commits on its own.                                      *)
(***************************************************************************)
legacy_db_create_mois(d, nom, salaire, fail) == db_create_mois(d, nom, salaire, fail)

legacy_db_create_depense(d, mois_id, depense, fail) ==
    IF fail # 0 \/ depense.nom = NULL THEN [exc |-> "DatabaseError", db |-> d, id |-> 0]
    ELSE [exc |-> "",
          db |-> [d EXCEPT !.depenses = @ \cup {[id |-> d.seq_depenses + 1,
                                                 mois_id |-> mois_id,
                                                 nom |-> depense.nom,
                                                 montant |-> depense.montant,
                                                 categorie |-> depense.categorie,
                                                 date_depense |-> depense.date_depense,
                                                 est_credit |-> depense.est_credit,
                                                 effectue |-> depense.effectue,
                                                 emprunte |-> depense.emprunte]},
                           !.seq_depenses = @ + 1],
          id |-> d.seq_depenses + 1]

legacy_get_depenses_by_mois(d, mois_id) ==
    LET rows == ById({r \in d.depenses : r.mois_id = mois_id})
    IN [i \in 1..Len(rows) |->
            [id |-> rows[i].id, nom |-> rows[i].nom, montant |-> rows[i].montant,
             categorie |-> rows[i].categorie, date_depense |-> rows[i].date_depense,
             est_credit |-> rows[i].est_credit, effectue |-> rows[i].effectue,
             emprunte |-> rows[i].emprunte]]

\* the first n create_depense calls of a loop, each committed when it returns,
\* stopping at the first DatabaseError; fail = k breaks the k-th call
RECURSIVE legacy_create_depenses(_, _, _, _, _)
legacy_create_depenses(d, mois_id, deps, n, fail) ==
    IF n = 0 THEN [exc |-> "", db |-> d, done |-> 0]
    ELSE LET prev == legacy_create_depenses(d, mois_id, deps, n - 1, fail)
             r == legacy_db_create_depense(prev.db, mois_id, deps[n],
                                           IF fail = n THEN 1 ELSE 0)
         IN IF prev.exc # "" THEN prev
            ELSE IF r.exc # "" THEN [exc |-> r.exc, db |-> prev.db, done |-> n - 1]
            ELSE [exc |-> "", db |-> r.db, done |-> n]

legacy_create_mois(m, nom, salaire_str, fail, bad) == create_mois(m, nom, salaire_str, fail, bad)

legacy_load_mois(m, nom, fail, bad) ==
    LET mois == get_mois_by_name(m.db, nom)
        deps == legacy_get_depenses_by_mois(m.db, mois[1].id)
        m1 == [m EXCEPT !.mois_actuel = mois,
                        !.depenses = [i \in 1..Len(deps) |-> deps[i].id],
                        !.heap = [x \in {deps[i].id : i \in 1..Len(deps)} |->
                                    deps[CHOOSE i \in 1..Len(deps) : deps[i].id = x]]]
        m2 == _save_last_mois(m1, nom)
    IN IF fail = 1 THEN RetDb(m, <<>>)
       ELSE IF mois = <<>> THEN Ret(m, "error", <<>>)
       ELSE IF fail = 2 THEN RetDb(m, <<>>)
       ELSE Ret(m2, IF "mois_loaded" \in bad THEN "error" ELSE "success", <<"mois_loaded">>)

\* f carries nom, montant_str, categorie, effectue, emprunte
legacy_add_expense(m, f, fail, bad) ==
    LET v == validate_expense_data(f.nom, f.montant_str, f.categorie)
        depense == [nom |-> v.nom, montant |-> v.montant, categorie |-> v.categorie,
                    date_depense |-> "", est_credit |-> FALSE, effectue |-> f.effectue,
                    emprunte |-> f.emprunte]
        c == legacy_db_create_depense(m.db, m.mois_actuel[1].id, depense, fail)
        m1 == [m EXCEPT !.db = c.db,
                        !.depenses = Append(@, c.id),
                        !.heap = (c.id :> ([id |-> c.id] @@ depense)) @@ @]
    IN IF m.mois_actuel = <<>> THEN Ret(m, "error", <<>>)
       ELSE IF c.exc # "" THEN RetDb([m EXCEPT !.db = c.db], <<>>)
       ELSE Ret(m1, IF "expense_added" \in bad THEN "error" ELSE "success", <<"expense_added">>)

\* create_mois, then one create_depense per record of _depenses: fail = 1
\* breaks the first, fail = k + 1 the copy of the k-th record
legacy_duplicate_mois(m, new_name, reset_status, fail, bad) ==
    LET c == legacy_db_create_mois(m.db, new_name, m.mois_actuel[1].salaire,
                                   IF fail = 1 THEN 1 ELSE 0)
        copies == [i \in 1..Len(m.depenses) |->
                     [nom |-> m.heap[m.depenses[i]].nom,
                      montant |-> m.heap[m.depenses[i]].montant,
                      categorie |-> m.heap[m.depenses[i]].categorie,
                      date_depense |-> "",
                      est_credit |-> FALSE,
                      effectue |-> IF reset_status THEN FALSE
                                   ELSE m.heap[m.depenses[i]].effectue,
                      emprunte |-> IF reset_status THEN FALSE
                                   ELSE m.heap[m.depenses[i]].emprunte]]
        k == legacy_create_depenses(c.db, c.id, copies, Len(copies), fail - 1)
        m1 == [m EXCEPT !.db = k.db]
    IN IF m.mois_actuel = <<>> THEN Ret(m, "error", <<>>)
       ELSE IF new_name = <<>> \/ strip(new_name) = <<>> THEN Ret(m, "error", <<>>)
       ELSE IF c.exc # "" THEN RetDb(m, <<>>)
       ELSE IF k.exc # "" THEN RetDb(m1, <<>>)
       ELSE Ret(m1, IF "mois_duplicated" \in bad THEN "error" ELSE "success",
                <<"mois_duplicated">>)

legacy_svc_import_from_json(d, file, new_mois_name, fail) ==
    LET data == file.data
        salaire == Get(Get(data, "mois", <<>>), "salaire", 0)
        c == legacy_db_create_mois(d, new_mois_name, salaire, IF fail = 1 THEN 1 ELSE 0)
        deps == [i \in 1..Len(data.depenses) |->
                    [nom |-> Get(data.depenses[i], "nom", <<"D">>),
                     montant |-> Get(data.depenses[i], "montant", 0),
                     categorie |-> Get(data.depenses[i], "categorie", "Autres"),
                     date_depense |-> "",
                     est_credit |-> FALSE,
                     effectue |-> Get(data.depenses[i], "effectue", FALSE),
                     emprunte |-> Get(data.depenses[i], "emprunte", FALSE)]]
        k == legacy_create_depenses(c.db, c.id, deps, Len(deps), fail - 1)
    IN IF ~file.found THEN [is_success |-> FALSE, db_exc |-> FALSE, db |-> d]
       ELSE IF ~("depenses" \in DOMAIN data)
       THEN [is_success |-> FALSE, db_exc |-> FALSE, db |-> d]
       ELSE IF c.exc # "" THEN [is_success |-> FALSE, db_exc |-> TRUE, db |-> c.db]
       ELSE IF k.exc # "" THEN [is_success |-> FALSE, db_exc |-> TRUE, db |-> k.db]
       ELSE [is_success |-> TRUE, db_exc |-> FALSE, db |-> k.db]

legacy_import_from_json(m, file, new_mois_name, fail, fail_load, bad) ==
    LET result == legacy_svc_import_from_json(m.db, file, strip(new_mois_name), fail)
        l == legacy_load_mois([m EXCEPT !.db = result.db], strip(new_mois_name), fail_load, bad)
    IN IF new_mois_name = <<>> \/ strip(new_mois_name) = <<>> THEN Ret(m, "error", <<>>)
       ELSE IF ~result.is_success
       THEN [m |-> [m EXCEPT !.db = result.db], result |-> "error", events |-> <<>>,
             db_exc |-> result.db_exc]
       ELSE Ret(l.m, "success", l.events)

(***************************************************************************)
(* Inputs                                                                  *)
(***************************************************************************)
\* what the controller passes (the defaults)
DefaultForm == [nom |-> <<>>, montant_str |-> "0", categorie |-> "Autres",
                effectue |-> FALSE, emprunte |-> FALSE, est_fixe |-> FALSE]

EditFebruary == [nom |-> <<"B", "a", " ">>, montant_str |-> "2,5",
                 date_depense |-> "01/02/2024", categorie |-> "Loisirs",
                 effectue |-> TRUE, emprunte |-> FALSE, est_fixe |-> TRUE]

EditJanuary == [nom |-> <<"a">>, montant_str |-> "10", date_depense |-> "15/01/2024",
                categorie |-> "", effectue |-> FALSE, emprunte |-> TRUE, est_fixe |-> FALSE]

FileMissing == [found |-> FALSE, data |-> <<>>]

FileNoDepenses == [found |-> TRUE, data |-> [mois |-> [salaire |-> 100]]]

FileTwo ==
    [found |-> TRUE,
     data |-> [mois |-> [nom |-> <<"J">>, salaire |-> 100],
               depenses |-> <<[nom |-> <<"A", "b">>, montant |-> 40, categorie |-> "Autres",
                               date_depense |-> "01/02/2024", est_credit |-> TRUE,
                               effectue |-> TRUE, emprunte |-> FALSE, est_fixe |-> TRUE],
                              [montant |-> 25]>>]]

FileNullNom ==
    [found |-> TRUE,
     data |-> [depenses |-> <<[nom |-> <<"a">>, montant |-> 100],
                              [nom |-> NULL, montant |-> 25]>>]]

\* one fault at most per call: the nfail-th store statement raises, or the
\* nload-th read of the nested load_mois does, or the observers raise on one
\* of the events
Faults(nfail, nload, events) ==
    {[fail |-> 0, fail_load |-> 0, bad |-> {}]}
    \cup {[fail |-> k, fail_load |-> 0, bad |-> {}] : k \in 1..nfail}
    \cup {[fail |-> 0, fail_load |-> k, bad |-> {}] : k \in 1..nload}
    \cup {[fail |-> 0, fail_load |-> 0, bad |-> {e}] : e \in events}

(***************************************************************************)
(* State machine                                                           *)
(***************************************************************************)
Self == [db |-> db, mois_actuel |-> mois_actuel, depenses |-> depenses,
         displayed_depenses |-> displayed_depenses, heap |-> heap,
         current_search_term |-> current_search_term,
         current_sort_key |-> current_sort_key]

Referenced(m) == {m.depenses[i] : i \in 1..Len(m.depenses)}
                 \cup {m.displayed_depenses[i] : i \in 1..Len(m.displayed_depenses)}

\* the arguments of a call that last keeps: the period name, the position or
\* id of a record, the reset_status flag, the rows of the file an import read
NoArg == [nom |-> <<>>, index |-> 0, reset_status |-> FALSE, rows |-> <<>>]

\* the method has run: the object's state is r.m (objects no list refers to
\* any more are dropped), the observer list and the exported file are r's
\* when r names them.  last records the call: its name, its arguments,
\* the statement the fault was injected into, the number of records a
\* multi-row writer was handed, what the call returned, the events it sent,
\* whether the store raised, what the observers were handed or the call
\* counted, and by how much the two tables grew.
Call(op, arg, fail, batch, returned) ==
  \E r \in {returned} :
    /\ db' = r.m.db
    /\ mois_actuel' = r.m.mois_actuel
    /\ depenses' = r.m.depenses
    /\ displayed_depenses' = r.m.displayed_depenses
    /\ heap' = [x \in Referenced(r.m) |-> r.m.heap[x]]
    /\ current_search_term' = r.m.current_search_term
    /\ current_sort_key' = r.m.current_sort_key
    /\ observers' = IF "observers" \in DOMAIN r THEN r.observers ELSE observers
    /\ fichier' = IF "fichier" \in DOMAIN r THEN r.fichier ELSE fichier
    /\ ctl' = IF "ctl" \in DOMAIN r THEN r.ctl ELSE ctl
    /\ last' = [op |-> op, arg |-> arg, fail |-> fail, batch |-> batch, result |-> r.result,
                events |-> r.events,
                db_exc |-> r.db_exc,
                data |-> IF "data" \in DOMAIN r THEN r.data ELSE <<>>,
                d_mois |-> Cardinality(r.m.db.mois) - Cardinality(db.mois),
                d_depenses |-> Cardinality(r.m.db.depenses) - Cardinality(db.depenses)]

\* the store's records of the active period, none when no period is active
ActiveRows == IF mois_actuel = <<>> THEN <<>>
              ELSE get_depenses_by_mois(db, mois_actuel[1].id)

\* the number of records a JSON file hands to the import
BatchOf(file) == IF "depenses" \in DOMAIN file.data THEN Len(file.data.depenses) ELSE 0

Init ==
    /\ db = [mois |-> {}, depenses |-> {}, seq_mois |-> 0, seq_depenses |-> 0,
             last_mois |-> <<>>]
    /\ mois_actuel = <<>>
    /\ depenses = <<>>
    /\ displayed_depenses = <<>>
    /\ heap = <<>>
    /\ current_search_term = <<>>
    /\ current_sort_key = "date_desc"
    /\ observers = <<>>
    /\ fichier = FileMissing
    /\ ctl = [enabled |-> TRUE, progress |-> FALSE, worker |-> "idle", wl |-> <<>>,
              pending |-> {}, main |-> "idle", ml |-> <<>>]
    /\ last = [op |-> "init", arg |-> NoArg, fail |-> 0, batch |-> 0, result |-> "success",
               events |-> <<>>,
               db_exc |-> FALSE, data |-> <<>>, d_mois |-> 0, d_depenses |-> 0]

\* the AUTOINCREMENT counters stay within the bounds
Within(max_mois, max_depenses) ==
    /\ db'.seq_mois <= max_mois
    /\ db'.seq_depenses <= max_depenses

DoCreateMois(noms, salaires, faults) ==
    \E nom \in noms, salaire_str \in salaires, x \in faults :
        Call("create_mois", [NoArg EXCEPT !.nom = nom],
             x.fail, 0, create_mois(Self, nom, salaire_str, x.fail, x.bad))

DoLoadMois(noms, faults) ==
    \E nom \in noms, x \in faults :
        Call("load_mois", [NoArg EXCEPT !.nom = nom],
             x.fail, 0, load_mois(Self, nom, x.fail, x.bad))

DoDeleteMois(noms, faults) ==
    \E nom \in noms, x \in faults :
        Call("delete_mois", [NoArg EXCEPT !.nom = nom],
             x.fail, 0, delete_mois(Self, nom, x.fail, x.bad))

DoDuplicateMois(noms, resets, faults) ==
    \E new_name \in noms, reset_status \in resets, x \in faults :
        Call("duplicate_mois", [NoArg EXCEPT !.nom = new_name, !.reset_status = reset_status],
             x.fail, Len(ActiveRows),
             duplicate_mois(Self, new_name, reset_status, x.fail, x.fail_load, x.bad))

DoAddExpense(forms, faults) ==
    \E f \in forms, x \in faults :
        Call("add_expense", NoArg, x.fail, 0, add_expense(Self, f, x.fail, x.bad))

DoUpdateExpense(forms, faults) ==
    \E index \in 1..(Len(displayed_depenses) + 1), f \in forms, x \in faults :
        Call("update_expense", [NoArg EXCEPT !.index = index],
             x.fail, 0, update_expense(Self, index, f, x.fail))

DoRemoveExpense(faults) ==
    \E index \in 1..(Len(depenses) + 1), x \in faults :
        Call("remove_expense", [NoArg EXCEPT !.index = index],
             x.fail, 0, remove_expense(Self, index, x.fail, x.bad))

DoRemoveExpenseById(faults) ==
    \E depense_id \in 1..(db.seq_depenses + 1), x \in faults :
        Call("remove_expense_by_id", [NoArg EXCEPT !.index = depense_id], x.fail, 0,
             remove_expense_by_id(Self, depense_id, x.fail, x.bad))

DoFilterDepensesByName(texts, faults) ==
    \E search_text \in texts, x \in faults :
        Call("filter_depenses_by_name", [NoArg EXCEPT !.nom = search_text], x.fail, 0,
             filter_depenses_by_name(Self, search_text, x.bad))

DoSortDepenses(keys, faults) ==
    \E sort_key \in keys, x \in faults :
        Call("sort_depenses", NoArg, x.fail, 0, sort_depenses(Self, sort_key, x.bad))

(***************************************************************************)
(* Spec: every operation of core BudgetModel, with store faults and        *)
(* raising observers, over two period names.                               *)
(***************************************************************************)
CreateMois ==
    /\ DoCreateMois({<<"J">>, <<" ", "F">>}, {"", "abc"}, Faults(0, 0, {"mois_created"}))
    /\ Within(MaxMoisId, MaxDepenseId)

LoadMois ==
    /\ DoLoadMois({<<"J">>, <<"F">>}, Faults(2, 0, {"mois_loaded"}))
    /\ Within(MaxMoisId, MaxDepenseId)

DeleteMois ==
    /\ DoDeleteMois({<<"J">>, <<"F">>}, Faults(1, 0, {}))
    /\ Within(MaxMoisId, MaxDepenseId)

DuplicateMois ==
    /\ DoDuplicateMois({<<"F">>, <<" ", "J">>}, {FALSE}, Faults(Len(depenses) + 1, 0, {}))
    /\ Within(MaxMoisId, MaxDepenseId)

RenameMois ==
    /\ \E new_name \in {<<"J">>, <<"F">>}, x \in Faults(1, 0, {}) :
           Call("rename_mois", [NoArg EXCEPT !.nom = new_name],
                x.fail, 0, rename_mois(Self, new_name, x.fail, x.bad))
    /\ Within(MaxMoisId, MaxDepenseId)

SetSalaire ==
    /\ \E salaire_str \in {"10"}, x \in Faults(1, 0, {}) :
           Call("set_salaire", NoArg, x.fail, 0, set_salaire(Self, salaire_str, x.fail, x.bad))
    /\ Within(MaxMoisId, MaxDepenseId)

AddExpense ==
    /\ DoAddExpense({DefaultForm}, Faults(0, 0, {}))
    /\ Within(MaxMoisId, MaxDepenseId)

UpdateExpense ==
    /\ DoUpdateExpense({EditFebruary}, Faults(1, 0, {}))
    /\ Within(MaxMoisId, MaxDepenseId)

RemoveExpense ==
    /\ DoRemoveExpense(Faults(0, 0, {}))
    /\ Within(MaxMoisId, MaxDepenseId)

RemoveExpenseById ==
    /\ DoRemoveExpenseById(Faults(0, 0, {}))
    /\ Within(MaxMoisId, MaxDepenseId)

ClearAllExpenses ==
    /\ \E x \in Faults(0, 0, {}) :
           Call("clear_all_expenses", NoArg, x.fail, 0,
                clear_all_expenses(Self, x.fail, x.bad))
    /\ Within(MaxMoisId, MaxDepenseId)

ImportFromJson ==
    /\ \E file \in {FileTwo, FileNullNom}, new_mois_name \in {<<"F">>},
          x \in Faults(3, 0, {}) :
           Call("import_from_json", [NoArg EXCEPT !.nom = new_mois_name], x.fail,
                BatchOf(file),
                import_from_json(Self, file, new_mois_name, x.fail, x.fail_load, x.bad))
    /\ Within(MaxMoisId, MaxDepenseId)

Next ==
    \/ CreateMois
    \/ LoadMois
    \/ DeleteMois
    \/ DuplicateMois
    \/ RenameMois
    \/ SetSalaire
    \/ AddExpense
    \/ UpdateExpense
    \/ RemoveExpense
    \/ RemoveExpenseById
    \/ ClearAllExpenses
    \/ ImportFromJson

Spec == Init /\ [][Next]_vars

(***************************************************************************)
(* SpecProj: one period, up to three records, every sort key; the          *)
(* operations that feed or rebuild the displayed list.  No fault injected. *)
(***************************************************************************)
ProjCreateMois ==
    /\ DoCreateMois({<<"J">>}, {""}, Faults(0, 0, {}))
    /\ Within(MaxMoisId, MaxDepenseIdProj)

ProjLoadMois ==
    /\ DoLoadMois({<<"J">>}, Faults(0, 0, {}))
    /\ Within(MaxMoisId, MaxDepenseIdProj)

ProjAddExpense ==
    /\ DoAddExpense({DefaultForm}, Faults(0, 0, {}))
    /\ Within(MaxMoisId, MaxDepenseIdProj)

ProjUpdateExpense ==
    /\ DoUpdateExpense({EditFebruary, EditJanuary}, Faults(0, 0, {}))
    /\ Within(MaxMoisId, MaxDepenseIdProj)

ProjRemoveExpense ==
    /\ DoRemoveExpense(Faults(0, 0, {}))
    /\ Within(MaxMoisId, MaxDepenseIdProj)

ProjRemoveExpenseById ==
    /\ DoRemoveExpenseById(Faults(0, 0, {}))
    /\ Within(MaxMoisId, MaxDepenseIdProj)

ProjFilterDepensesByName ==
    /\ DoFilterDepensesByName({<<>>, <<"B">>}, Faults(0, 0, {}))
    /\ Within(MaxMoisId, MaxDepenseIdProj)

ProjSortDepenses ==
    /\ DoSortDepenses(NamedSortKeys \cup {"autre"}, Faults(0, 0, {}))
    /\ Within(MaxMoisId, MaxDepenseIdProj)

NextProj ==
    \/ ProjCreateMois
    \/ ProjLoadMois
    \/ ProjAddExpense
    \/ ProjUpdateExpense
    \/ ProjRemoveExpense
    \/ ProjRemoveExpenseById
    \/ ProjFilterDepensesByName
    \/ ProjSortDepenses

SpecProj == Init /\ [][NextProj]_vars

(***************************************************************************)
(* SpecLegacy: the operations of the path main.py wires that write several *)
(* rows, with a fault injected into one store call.                        *)
(***************************************************************************)
LegacyDefaultForm == [nom |-> <<>>, montant_str |-> "0", categorie |-> "Autres",
                      effectue |-> FALSE, emprunte |-> FALSE]

LegacyFilledForm == [nom |-> <<"A", "b">>, montant_str |-> "10", categorie |-> "",
                     effectue |-> TRUE, emprunte |-> FALSE]

LegacyCreateMois ==
    /\ \E nom \in {<<"J">>, <<" ", "F">>}, x \in Faults(1, 0, {}) :
          Call("create_mois", [NoArg EXCEPT !.nom = nom],
               x.fail, 0, legacy_create_mois(Self, nom, "10", x.fail, x.bad))
    /\ Within(MaxMoisId, MaxDepenseIdProj)

LegacyLoadMois ==
    /\ \E nom \in {<<"J">>, <<"F">>}, x \in Faults(2, 0, {}) :
          Call("load_mois", [NoArg EXCEPT !.nom = nom],
               x.fail, 0, legacy_load_mois(Self, nom, x.fail, x.bad))
    /\ Within(MaxMoisId, MaxDepenseIdProj)

LegacyAddExpense ==
    /\ \E f \in {LegacyDefaultForm, LegacyFilledForm}, x \in Faults(1, 0, {}) :
          Call("add_expense", NoArg, x.fail, 0, legacy_add_expense(Self, f, x.fail, x.bad))
    /\ Within(MaxMoisId, MaxDepenseIdProj)

LegacyDuplicateMois ==
    /\ \E new_name \in {<<"F">>, <<"J">>}, reset_status \in BOOLEAN,
           x \in Faults(Len(depenses) + 1, 0, {}) :
          Call("duplicate_mois", [NoArg EXCEPT !.nom = new_name, !.reset_status = reset_status],
               x.fail, Len(depenses),
               legacy_duplicate_mois(Self, new_name, reset_status, x.fail, x.bad))
    /\ Within(MaxMoisId, MaxDepenseIdProj)

LegacyImportFromJson ==
    /\ \E file \in {FileMissing, FileNoDepenses, FileTwo, FileNullNom},
           new_mois_name \in {<<"F">>, <<" ", "J">>}, x \in Faults(3, 0, {}) :
          Call("import_from_json", [NoArg EXCEPT !.nom = new_mois_name], x.fail, BatchOf(file),
               legacy_import_from_json(Self, file, new_mois_name, x.fail, x.fail_load, x.bad))
    /\ Within(MaxMoisId, MaxDepenseIdProj)

NextLegacy ==
    \/ LegacyCreateMois
    \/ LegacyLoadMois
    \/ LegacyAddExpense
    \/ LegacyDuplicateMois
    \/ LegacyImportFromJson

SpecLegacy == Init /\ [][NextLegacy]_vars

(***************************************************************************)
(* SpecDup: one period of up to two records and its copy; duplicate_mois   *)
(* with and without reset_status, with a fault in the store's copy, in the *)
(* nested load_mois or in an observer.                                     *)
(***************************************************************************)
DoneForm == [nom |-> <<"A", "b">>, montant_str |-> "10", categorie |-> "Loisirs",
             effectue |-> TRUE, emprunte |-> TRUE, est_fixe |-> TRUE]

DupCreateMois ==
    /\ DoCreateMois({<<"J">>}, {"10"}, Faults(0, 0, {}))
    /\ Within(MaxMoisId, MaxDepenseIdDup)

DupLoadMois ==
    /\ DoLoadMois({<<"J">>, <<"F">>}, Faults(0, 0, {}))
    /\ Within(MaxMoisId, MaxDepenseIdDup)

DupAddExpense ==
    /\ DoAddExpense({DefaultForm, DoneForm}, Faults(0, 0, {}))
    /\ Within(MaxMoisId, MaxDepenseIdDup)

DupUpdateExpense ==
    /\ DoUpdateExpense({EditJanuary}, Faults(0, 0, {}))
    /\ Within(MaxMoisId, MaxDepenseIdDup)

DupDuplicateMois ==
    /\ DoDuplicateMois({<<"F">>, <<" ", "J">>}, BOOLEAN,
                       Faults(Len(depenses) + 1, 2,
                              {"display_updated", "mois_loaded", "mois_duplicated"}))
    /\ Within(MaxMoisId, MaxDepenseIdDup)

NextDup ==
    \/ DupCreateMois
    \/ DupLoadMois
    \/ DupAddExpense
    \/ DupUpdateExpense
    \/ DupDuplicateMois

SpecDup == Init /\ [][NextDup]_vars

(***************************************************************************)
(* SpecEdit: one period, up to three records; add_expense and              *)
(* update_expense under a search term and three sort keys, with a store    *)
(* fault or a raising observer.                                            *)
(***************************************************************************)
EditForms == {EditFebruary, EditJanuary}

EditCreateMois ==
    /\ DoCreateMois({<<"J">>}, {""}, Faults(0, 0, {}))
    /\ Within(MaxMoisId, MaxDepenseIdProj)

EditAddExpense ==
    /\ DoAddExpense({DefaultForm, DoneForm}, Faults(1, 0, {"expense_added"}))
    /\ Within(MaxMoisId, MaxDepenseIdProj)

EditUpdateExpense ==
    /\ DoUpdateExpense(EditForms, Faults(1, 0, {}))
    /\ Within(MaxMoisId, MaxDepenseIdProj)

EditFilterDepensesByName ==
    /\ DoFilterDepensesByName({<<>>, <<"B">>}, Faults(0, 0, {}))
    /\ Within(MaxMoisId, MaxDepenseIdProj)

EditSortDepenses ==
    /\ DoSortDepenses({"date_desc", "montant_asc", "nom_desc"}, Faults(0, 0, {}))
    /\ Within(MaxMoisId, MaxDepenseIdProj)

NextEdit ==
    \/ EditCreateMois
    \/ EditAddExpense
    \/ EditUpdateExpense
    \/ EditFilterDepensesByName
    \/ EditSortDepenses

SpecEdit == Init /\ [][NextEdit]_vars

(***************************************************************************)
(* SpecIO: the imports and the export, over a bank sheet with rows the     *)
(* loop skips, the JSON files and the file the export wrote; add_expense   *)
(* and update_expense with a negative amount; the summary the filter       *)
(* hands to the observers.                                                 *)
(***************************************************************************)
\* the AUTOINCREMENT counter of table depenses where a period of three
\* records is exported and imported again
MaxDepenseIdIO == 6

NegativeForm == [nom |-> <<"a">>, montant_str |-> "-3", date_depense |-> "15/01/2024",
                 categorie |-> "Autres", effectue |-> FALSE, emprunte |-> TRUE,
                 est_fixe |-> TRUE]

SheetBank ==
    [found |-> TRUE, header |-> TRUE, debit |-> TRUE, credit |-> TRUE,
     rows |-> <<[nom |-> <<"A", "b">>, date_val |-> "01/02/2024", debit |-> [t |-> "none"],
                 credit |-> [t |-> "num", v |-> 200]],
                [nom |-> NULL, date_val |-> "01/02/2024",
                 debit |-> [t |-> "num", v |-> 40], credit |-> [t |-> "none"]],
                [nom |-> <<"a">>, date_val |-> "15/01/2024",
                 debit |-> [t |-> "num", v |-> 100], credit |-> [t |-> "none"]],
                [nom |-> <<"a">>, date_val |-> "",
                 debit |-> [t |-> "num", v |-> 40], credit |-> [t |-> "none"]],
                [nom |-> <<"a">>, date_val |-> "15/01/2024",
                 debit |-> [t |-> "str", s |-> "abc"], credit |-> [t |-> "none"]],
                [nom |-> <<"B", "a", " ">>, date_val |-> "15/01/2024",
                 debit |-> [t |-> "num", v |-> 300], credit |-> [t |-> "num", v |-> 0]],
                [nom |-> <<"a">>, date_val |-> "15/01/2024",
                 debit |-> [t |-> "num", v |-> -30], credit |-> [t |-> "none"]]>>]

IOImportFromExcel ==
    /\ \E sheet \in {SheetBank, [SheetBank EXCEPT !.header = FALSE]},
          new_mois_name \in {<<"J">>, <<"F">>},
          x \in Faults(2, 0, {}) :
           Call("import_from_excel", [NoArg EXCEPT !.nom = new_mois_name, !.rows = sheet.rows],
                x.fail, IF sheet.header THEN Len(sheet.rows) ELSE 0,
                import_from_excel(Self, sheet, new_mois_name, x.fail))
    /\ Within(MaxMoisId, MaxDepenseIdIO)

IOImportFromJson ==
    /\ \E file \in {FileTwo, FileNullNom, fichier}, new_mois_name \in {<<"J">>, <<"F">>} :
           Call("import_from_json",
                [NoArg EXCEPT !.nom = new_mois_name,
                              !.rows = Get(file.data, "depenses", <<>>)],
                0, BatchOf(file), import_from_json(Self, file, new_mois_name, 0, 0, {}))
    /\ Within(MaxMoisId, MaxDepenseIdIO)

IOExportToJson ==
    /\ \E x \in Faults(1, 0, {}) :
           Call("export_to_json", NoArg, x.fail, 0, export_to_json(Self, fichier, x.fail))
    /\ Within(MaxMoisId, MaxDepenseIdIO)

IOLoadMois ==
    /\ DoLoadMois({<<"J">>, <<"F">>}, Faults(0, 0, {}))
    /\ Within(MaxMoisId, MaxDepenseIdIO)

IOAddExpense ==
    /\ DoAddExpense({NegativeForm}, Faults(0, 0, {}))
    /\ Within(MaxMoisId, MaxDepenseIdIO)

IOUpdateExpense ==
    /\ DoUpdateExpense({NegativeForm}, Faults(0, 0, {}))
    /\ Within(MaxMoisId, MaxDepenseIdIO)

IOFilterDepensesByName ==
    /\ DoFilterDepensesByName({<<>>, <<"B">>}, Faults(0, 0, {}))
    /\ Within(MaxMoisId, MaxDepenseIdIO)

\* the getters change nothing; last keeps what they returned
IOGetDisplayData ==
    /\ Call("get_display_data", NoArg, 0, 0,
            [m |-> Self, result |-> "success", events |-> <<>>, db_exc |-> FALSE,
             data |-> get_display_data(Self)])
    /\ Within(MaxMoisId, MaxDepenseIdIO)

IOGetSummaryData ==
    /\ Call("get_summary_data", NoArg, 0, 0,
            [m |-> Self, result |-> "success", events |-> <<>>, db_exc |-> FALSE,
             data |-> get_summary_data(Self)])
    /\ Within(MaxMoisId, MaxDepenseIdIO)

NextIO ==
    \/ IOImportFromExcel
    \/ IOImportFromJson
    \/ IOExportToJson
    \/ IOLoadMois
    \/ IOAddExpense
    \/ IOUpdateExpense
    \/ IOFilterDepensesByName
    \/ IOGetDisplayData
    \/ IOGetSummaryData

SpecIO == Init /\ [][NextIO]_vars

(***************************************************************************)
(* SpecUnits: Observable and DatabaseManager called on their own: observers*)
(* are registered and notified, records are created, updated and deleted   *)
(* by id, the id being any the counter has handed out or the next one.     *)
(***************************************************************************)
ObsAddObserver ==
    /\ \E observer \in {[name |-> "view", bad |-> {}],
                        [name |-> "log", bad |-> {"display_updated"}],
                        [name |-> "stats", bad |-> {"mois_loaded"}]} :
           Call("add_observer", NoArg, 0, 0,
                [m |-> Self, result |-> "success", events |-> <<>>, db_exc |-> FALSE,
                 observers |-> add_observer(observers, observer)])
    /\ Within(MaxMoisId, MaxDepenseIdProj)

ObsNotifyObservers ==
    /\ \E event_type \in {"display_updated", "mois_loaded"} :
           LET n == notify_observers(observers, event_type)
           IN Call("notify_observers", NoArg, 0, 0,
                   [m |-> Self, result |-> IF n.raised THEN "raise" ELSE "success",
                    events |-> <<event_type>>, db_exc |-> FALSE, data |-> n.called])
    /\ Within(MaxMoisId, MaxDepenseIdProj)

\* the foreign key is not enforced: a record needs no period row
StoreCreateDepense ==
    /\ \E f \in {DoneForm, NegativeForm} :
          LET v == validate_expense_data(f.nom, f.montant_str, f.categorie)
              c == db_create_depense(db, 1, [nom |-> v.nom, montant |-> v.montant,
                                             categorie |-> v.categorie, date_depense |-> "",
                                             est_credit |-> FALSE, effectue |-> f.effectue,
                                             emprunte |-> f.emprunte, est_fixe |-> f.est_fixe],
                                     0)
          IN Call("create_depense", NoArg, 0, 0,
                  [m |-> [Self EXCEPT !.db = c.db], result |-> "success", events |-> <<>>,
                   db_exc |-> FALSE])
    /\ Within(MaxMoisId, MaxDepenseIdProj)

StoreUpdateDepense ==
    \E id \in 1..(db.seq_depenses + 1), f \in {DoneForm, NegativeForm}, x \in Faults(1, 0, {}) :
        LET v == validate_expense_data(f.nom, f.montant_str, f.categorie)
            u == db_update_depense(db, [id |-> id, nom |-> v.nom, montant |-> v.montant,
                                        categorie |-> v.categorie, date_depense |-> Today,
                                        est_credit |-> FALSE, effectue |-> f.effectue,
                                        emprunte |-> f.emprunte, est_fixe |-> f.est_fixe],
                                   x.fail)
        IN Call("update_depense", [NoArg EXCEPT !.index = id], x.fail, 0,
                [m |-> [Self EXCEPT !.db = u.db],
                 result |-> IF u.exc # "" THEN "raise" ELSE "success", events |-> <<>>,
                 db_exc |-> u.exc # ""])

StoreDeleteDepense ==
    \E id \in 1..(db.seq_depenses + 1) :
        LET x == db_delete_depense(db, id, 0)
        IN Call("delete_depense", [NoArg EXCEPT !.index = id], 0, 0,
                [m |-> [Self EXCEPT !.db = x.db], result |-> "success", events |-> <<>>,
                 db_exc |-> FALSE])

NextUnits ==
    \/ ObsAddObserver
    \/ ObsNotifyObservers
    \/ StoreCreateDepense
    \/ StoreUpdateDepense
    \/ StoreDeleteDepense

SpecUnits == Init /\ [][NextUnits]_vars

(***************************************************************************)
(* SpecTx: the two multi-row writers of DatabaseManager called directly,   *)
(* with a fault in any of their statements, and the session of BudgetModel *)
(* around them.                                                            *)
(***************************************************************************)
\* DatabaseManager.import_new_mois called directly: one record, or two of
\* which the second has no name
StoreImportNewMois ==
    /\ \E nom_mois \in {<<"J">>, <<"F">>}, salaire \in {0, 100},
          noms \in {<< <<"a">> >>, << <<"a">>, NULL >>}, x \in Faults(2, 0, {}) :
          LET deps == [i \in 1..Len(noms) |->
                          [nom |-> noms[i], montant |-> 100, categorie |-> "Autres",
                           date_depense |-> Today, est_credit |-> FALSE, effectue |-> FALSE,
                           emprunte |-> FALSE, est_fixe |-> FALSE]]
              r == db_import_new_mois(db, nom_mois, salaire, deps, x.fail)
          IN Call("import_new_mois", [NoArg EXCEPT !.nom = nom_mois, !.rows = deps],
                  x.fail, Len(deps),
                  [m |-> [Self EXCEPT !.db = r.db],
                   result |-> IF r.exc # "" THEN "raise" ELSE "success", events |-> <<>>,
                   db_exc |-> r.exc # "", data |-> [tx |-> r.tx, exists |-> r.exists]])
    /\ Within(MaxMoisId, MaxDepenseIdProj)

\* DatabaseManager.duplicate_mois called directly, also with the id of no row
StoreDuplicateMois ==
    /\ \E original_mois_id \in 1..(db.seq_mois + 1), new_mois_name \in {<<"J">>, <<"F">>},
          x \in Faults(2, 0, {}) :
          LET r == db_duplicate_mois(db, original_mois_id, new_mois_name, x.fail)
          IN Call("duplicate_mois", [NoArg EXCEPT !.nom = new_mois_name,
                                                 !.index = original_mois_id],
                  x.fail, Len(get_depenses_by_mois(db, original_mois_id)),
                  [m |-> [Self EXCEPT !.db = r.db],
                   result |-> IF r.exc # "" THEN "raise"
                              ELSE IF r.is_success THEN "success" ELSE "error",
                   events |-> <<>>, db_exc |-> r.exc # "",
                   data |-> [tx |-> r.tx, exists |-> r.exists]])
    /\ Within(MaxMoisId, MaxDepenseIdProj)

\* the session around the writers: periods created, deleted, and the last
\* session restored (the start of the application)
TxCreateMois ==
    /\ DoCreateMois({<<"J">>, <<"F">>}, {""}, Faults(0, 0, {}))
    /\ Within(MaxMoisId, MaxDepenseIdProj)

TxDeleteMois ==
    /\ DoDeleteMois({<<"J">>, <<"F">>}, Faults(0, 0, {}))
    /\ Within(MaxMoisId, MaxDepenseIdProj)

TxLoadDataFromLastSession ==
    /\ \E first \in IF db.mois = {} THEN {<<>>} ELSE {<<p>> : p \in db.mois} :
           Call("load_data_from_last_session", NoArg, 0, 0,
                load_data_from_last_session(Self, first, 0, {}))
    /\ Within(MaxMoisId, MaxDepenseIdProj)

NextTx ==
    \/ StoreImportNewMois
    \/ StoreDuplicateMois
    \/ TxCreateMois
    \/ TxDeleteMois
    \/ TxLoadDataFromLastSession

SpecTx == Init /\ [][NextTx]_vars

(***************************************************************************)
(* SpecCtl: the background Excel import of BudgetController                *)
(* (src/controller.py) over the BudgetModel of src/model.py.  ctl is the   *)
(* controller with its two threads: enabled and progress are what          *)
(* set_month_actions_enabled and show_/hide_progress_bar last set on the   *)
(* view; worker is the position of ExcelImportWorker.run on the import     *)
(* thread and wl its locals; pending holds the events queued for the main  *)
(* thread (the finished signal, the timer of do_load); main is the         *)
(* position of the model call the main thread is in and ml its locals.  A  *)
(* main-thread handler runs to its end before the next queued event is     *)
(* taken; the steps of the worker interleave with it.                      *)
(***************************************************************************)
\* largest value of the AUTOINCREMENT counter of table depenses here
MaxDepenseIdCtl == 3

\* the view disables the month actions, import menu included, while an import
\* or a load is under way.  The sheet is missing, or has the header and one
\* row the loop accepts; the name is free text.
CtlHandleImportFromExcel ==
    /\ ctl.main = "idle" /\ ctl.enabled /\ ctl.worker = "idle" /\ ctl.pending = {}
    /\ db.seq_mois < MaxMoisId /\ db.seq_depenses < MaxDepenseIdCtl
    /\ \E sheet \in {[found |-> FALSE, header |-> FALSE, rows |-> <<>>],
                     [found |-> TRUE, header |-> TRUE,
                      rows |-> <<[nom |-> <<"a">>, montant |-> 100, categorie |-> "Autres",
                                  date_depense |-> Today, est_credit |-> FALSE,
                                  effectue |-> TRUE, emprunte |-> FALSE]>>]},
          new_name \in {<<"J">>, <<" ", "F">>, <<" ">>} :
          Call("handle_import_from_excel", [NoArg EXCEPT !.nom = new_name], 0, 0,
               [m |-> Self, result |-> "success", events |-> <<>>, db_exc |-> FALSE,
                ctl |-> [ctl EXCEPT !.enabled = FALSE, !.progress = TRUE,
                                    !.worker = "run",
                                    !.wl = [sheet |-> sheet, new_name |-> new_name,
                                            result |-> "", mois |-> <<>>, deps |-> <<>>]]])

\* ExcelImportWorker.run on the import thread, one step at a time:
\* BudgetModel.import_from_excel checks the name and calls the service
\* (workbook read, create_mois, one create_depense per operation: store
\* only), then load_mois reads the new period, assigns self.mois_actuel,
\* assigns self._depenses, saves the name and notifies; run emits finished
\* with the service's Result.  raises: the call raises and run's handler
\* builds the error Result.
CtlWorkerRun ==
    /\ ctl.worker # "idle"
    /\ \E raises \in IF ctl.worker = "run" THEN BOOLEAN ELSE {FALSE} :
          LET w == ctl.wl
              nom == strip(w.new_name)
              rows == w.sheet.rows
              credits == SelectSeq(rows, LAMBDA op : op.est_credit)
              salaire_initial == sum([i \in 1..Len(credits) |-> credits[i].montant])
              c == legacy_db_create_mois(db, nom, salaire_initial, 0)
              ops == legacy_create_depenses(c.db, c.db.seq_mois, rows, Len(rows), 0)
              imported ==
                  IF nom = <<>> \/ ~w.sheet.found \/ ~w.sheet.header \/ rows = <<>>
                  THEN [is_success |-> FALSE, db |-> db]
                  ELSE IF c.exc # "" THEN [is_success |-> FALSE, db |-> c.db]
                  ELSE [is_success |-> ops.exc = "", db |-> ops.db]
              mois == get_mois_by_name(db, nom)
              deps == legacy_get_depenses_by_mois(db, mois[1].id)
              loaded == [Self EXCEPT !.depenses = [i \in 1..Len(w.deps) |-> w.deps[i].id],
                                     !.heap = [x \in {w.deps[i].id : i \in 1..Len(w.deps)} |->
                                                 w.deps[CHOOSE i \in 1..Len(w.deps) :
                                                            w.deps[i].id = x]]]
              step(at, m, c2) ==
                  Call(at, [NoArg EXCEPT !.nom = w.new_name], 0, 0,
                       [m |-> m, result |-> "success", events |-> <<>>, db_exc |-> FALSE,
                        ctl |-> c2])
          IN CASE ctl.worker = "run" /\ raises ->
                    step("run: except", Self,
                         [ctl EXCEPT !.worker = "emit", !.wl.result = "error"])
               [] ctl.worker = "run" /\ ~raises ->
                    step("run: import_from_excel", [Self EXCEPT !.db = imported.db],
                         [ctl EXCEPT !.worker = IF imported.is_success THEN "load_mois"
                                                ELSE "emit",
                                     !.wl.result = IF imported.is_success THEN "success"
                                                   ELSE "error"])
               [] ctl.worker = "load_mois" /\ mois = <<>> ->
                    step("run: load_mois", Self, [ctl EXCEPT !.worker = "emit"])
               [] ctl.worker = "load_mois" /\ mois # <<>> ->
                    step("run: load_mois", Self,
                         [ctl EXCEPT !.worker = "mois_actuel", !.wl.mois = mois,
                                     !.wl.deps = deps])
               [] ctl.worker = "mois_actuel" ->
                    step("run: self.mois_actuel", [Self EXCEPT !.mois_actuel = w.mois],
                         [ctl EXCEPT !.worker = "_depenses"])
               [] ctl.worker = "_depenses" ->
                    step("run: self._depenses", _save_last_mois(loaded, nom),
                         [ctl EXCEPT !.worker = "emit"])
               [] ctl.worker = "emit" ->
                    step("run: finished.emit", Self,
                         [ctl EXCEPT !.worker = "idle", !.pending = @ \cup {"finished"}])

\* the slot without its else branch: a failed import leaves the view as
\* handle_import_from_excel set it
CtlOnImportExcelFinished_without_else ==
    /\ ctl.main = "idle" /\ "finished" \in ctl.pending
    /\ Call("_on_import_excel_finished", [NoArg EXCEPT !.nom = ctl.wl.new_name], 0, 0,
            [m |-> Self, result |-> ctl.wl.result, events |-> <<>>, db_exc |-> FALSE,
             ctl |-> IF ctl.wl.result = "success"
                     THEN [ctl EXCEPT !.pending = (@ \ {"finished"}) \cup {"do_load"},
                                      !.enabled = FALSE, !.progress = TRUE]
                     ELSE [ctl EXCEPT !.pending = @ \ {"finished"}]])

\* the slot, run by the main thread: a success goes on to _load_mois_async,
\* which disables the actions again and queues do_load; a failure hides the
\* bar and enables the actions
CtlOnImportExcelFinished ==
    /\ ctl.main = "idle" /\ "finished" \in ctl.pending
    /\ Call("_on_import_excel_finished", [NoArg EXCEPT !.nom = ctl.wl.new_name], 0, 0,
            [m |-> Self, result |-> ctl.wl.result, events |-> <<>>, db_exc |-> FALSE,
             ctl |-> IF ctl.wl.result = "success"
                     THEN [ctl EXCEPT !.pending = (@ \ {"finished"}) \cup {"do_load"},
                                      !.enabled = FALSE, !.progress = TRUE]
                     ELSE [ctl EXCEPT !.pending = @ \ {"finished"},
                                      !.enabled = TRUE, !.progress = FALSE]])

\* do_load of _load_mois_async: load_mois of the name as it was typed, then
\* the finally block
CtlDoLoad ==
    /\ ctl.main = "idle" /\ "do_load" \in ctl.pending
    /\ LET r == legacy_load_mois(Self, ctl.wl.new_name, 0, {})
       IN Call("do_load", [NoArg EXCEPT !.nom = ctl.wl.new_name], 0, 0,
               [m |-> r.m, result |-> r.result, events |-> r.events, db_exc |-> r.db_exc,
                ctl |-> [ctl EXCEPT !.pending = @ \ {"do_load"},
                                    !.enabled = TRUE, !.progress = FALSE]])

\* add_expense on the main thread in its two steps: create_depense for the
\* period self.mois_actuel names now, then self._depenses.append
CtlAddExpense ==
    LET v == validate_expense_data(<<>>, "0", "Autres")
        depense == [nom |-> v.nom, montant |-> v.montant, categorie |-> v.categorie,
                    date_depense |-> "", est_credit |-> FALSE, effectue |-> FALSE,
                    emprunte |-> FALSE]
        c == legacy_db_create_depense(db, mois_actuel[1].id, depense, 0)
        step(at, m, c2) ==
            Call(at, NoArg, 0, 0,
                 [m |-> m, result |-> "success", events |-> <<>>, db_exc |-> FALSE,
                  ctl |-> c2])
    IN CASE ctl.main = "idle" ->
              /\ mois_actuel # <<>>
              /\ db.seq_depenses + (IF ctl.worker = "run" THEN 1 ELSE 0) < MaxDepenseIdCtl
              /\ step("add_expense: create_depense", [Self EXCEPT !.db = c.db],
                      [ctl EXCEPT !.main = "append", !.ml = [id |-> c.id] @@ depense])
         [] ctl.main = "append" ->
              step("add_expense: self._depenses.append",
                   [Self EXCEPT !.depenses = Append(@, ctl.ml.id),
                                !.heap = (ctl.ml.id :> ctl.ml) @@ @],
                   [ctl EXCEPT !.main = "idle", !.ml = <<>>])
         [] OTHER -> FALSE

\* load_mois on the main thread in its steps: the two reads, the assignment
\* of self.mois_actuel, the assignment of self._depenses with the rest
CtlLoadMois ==
    LET step(at, nom, m, c2) ==
            Call(at, [NoArg EXCEPT !.nom = nom], 0, 0,
                 [m |-> m, result |-> "success", events |-> <<>>, db_exc |-> FALSE,
                  ctl |-> c2])
        l == ctl.ml
        loaded == [Self EXCEPT !.depenses = [i \in 1..Len(l.deps) |-> l.deps[i].id],
                               !.heap = [x \in {l.deps[i].id : i \in 1..Len(l.deps)} |->
                                           l.deps[CHOOSE i \in 1..Len(l.deps) :
                                                      l.deps[i].id = x]]]
    IN CASE ctl.main = "idle" ->
              \E nom \in {<<"J">>, <<"F">>} :
                  LET mois == get_mois_by_name(db, nom)
                  IN /\ mois # <<>>
                     /\ step("load_mois", nom, Self,
                             [ctl EXCEPT !.main = "mois_actuel",
                                         !.ml = [nom |-> nom, mois |-> mois,
                                                 deps |-> legacy_get_depenses_by_mois(
                                                              db, mois[1].id)]])
         [] ctl.main = "mois_actuel" ->
              step("load_mois: self.mois_actuel", l.nom,
                   [Self EXCEPT !.mois_actuel = l.mois], [ctl EXCEPT !.main = "_depenses"])
         [] ctl.main = "_depenses" ->
              step("load_mois: self._depenses", l.nom, _save_last_mois(loaded, l.nom),
                   [ctl EXCEPT !.main = "idle", !.ml = <<>>])
         [] OTHER -> FALSE

NextCtl ==
    \/ CtlHandleImportFromExcel
    \/ CtlWorkerRun
    \/ CtlOnImportExcelFinished
    \/ CtlDoLoad
    \/ CtlAddExpense
    \/ CtlLoadMois

SpecCtl == Init /\ [][NextCtl]_vars

\* the import thread runs; the event loop of the main thread serves every
\* queued event (the finished signal, the timer of do_load) however often
\* other handlers run in between; a call the main thread is in goes on to
\* its end
FairCtl ==
    /\ SpecCtl
    /\ WF_vars(CtlWorkerRun)
    /\ SF_vars(CtlOnImportExcelFinished)
    /\ SF_vars(CtlDoLoad)
    /\ WF_vars(CtlAddExpense /\ ctl.main # "idle")
    /\ WF_vars(CtlLoadMois /\ ctl.main # "idle")

(***************************************************************************)
(* Properties                                                              *)
(***************************************************************************)
Range(list) == {list[i] : i \in 1..Len(list)}

\* filter(canonical, term)
Filtered == SelectSeq(depenses, LAMBDA x : Matches(current_search_term, heap[x]))

\* the record has a sort key under sort_key
KeyDefined(sort_key, rec) ==
    Branch(sort_key) \notin DateKeys \/ ~strptime(rec.date_depense).err

\* no record is shown behind one it sorts strictly before
SortedBy(sort_key, h, list) ==
    \A i, j \in 1..Len(list) :
        i < j /\ KeyDefined(sort_key, h[list[i]]) /\ KeyDefined(sort_key, h[list[j]])
            => ~KeyLess(sort_key, h[list[j]], h[list[i]])

Rebuilt == last.op \in {"filter_depenses_by_name", "sort_depenses", "load_mois"}
           /\ last.result = "success"

\* C1: after filter_depenses_by_name, sort_depenses or load_mois the displayed
\* list holds exactly the canonical records that match the search term, in
\* the order of the current sort key (records whose date parses are in date
\* order whatever the other records hold).
C1_ProjectionIsSortedFilter ==
    Rebuilt => /\ Len(displayed_depenses) = Len(Filtered)
               /\ Range(displayed_depenses) = Range(Filtered)
               /\ SortedBy(current_sort_key, heap, displayed_depenses)

StoreRowsUnchanged == db'.mois = db.mois /\ db'.depenses = db.depenses

\* one period row was added, and with it exactly n record rows, all its own
WroteWholePeriod(n) ==
    \E p \in db'.mois :
        /\ p \notin db.mois
        /\ db'.mois = db.mois \cup {p}
        /\ db.depenses \subseteq db'.depenses
        /\ \A r \in db'.depenses \ db.depenses : r.mois_id = p.id
        /\ Cardinality(db'.depenses \ db.depenses) = n

\* C2: a duplicate_mois that raises (name taken, or the insert of the k-th
\* copy fails) leaves the period rows and the record rows exactly as they
\* were; otherwise the new period is there with a copy of every record.
C2_DuplicateAllOrNothing ==
    [][last'.op = "duplicate_mois" =>
          /\ last'.db_exc => StoreRowsUnchanged
          /\ StoreRowsUnchanged \/ WroteWholePeriod(last'.batch)]_vars

\* the insert of the second copy failed, the first one had been made
C2_Witness == last.op = "duplicate_mois" /\ last.db_exc /\ last.fail = 3 /\ last.batch = 2

\* C3: import_new_mois handed N records ends with one new period row and
\* exactly N new record rows that reference it, or with no new row at all.
C3_ImportAllOrNothing ==
    [][last'.op = "import_from_json" =>
          /\ last'.db_exc => StoreRowsUnchanged
          /\ StoreRowsUnchanged \/ WroteWholePeriod(last'.batch)]_vars

\* the insert of the second record failed, the first one had been made
C3_Witness == last.op = "import_from_json" /\ last.db_exc /\ last.fail = 3 /\ last.batch = 2

\* C4: in the path main.py wires, a duplication or an import that fails at
\* the k-th record leaves neither the new period row nor the k-1 records
\* already written.
C4_LegacyWritersAtomic ==
    [][last'.op \in {"duplicate_mois", "import_from_json"} /\ last'.db_exc
          => StoreRowsUnchanged]_vars

\* the Depense objects of the canonical list
Canonical == [i \in 1..Len(depenses) |-> heap[depenses[i]]]

\* C5: after every operation the canonical list holds exactly the store's
\* records of the active period, field for field, and is empty when no
\* period is active.
C5_CanonicalMirrorsStore ==
    last.op \in {"create_mois", "load_mois", "delete_mois", "rename_mois", "duplicate_mois",
                 "add_expense", "update_expense", "remove_expense", "remove_expense_by_id",
                 "clear_all_expenses", "import_from_json"}
        => /\ Len(depenses) = Len(ActiveRows)
           /\ Range(Canonical) = Range(ActiveRows)

\* C6: delete_mois removes at most one period and, with it and only with it,
\* every record row of that period; a call that answers success has removed
\* the period, a call that raises has removed nothing.
C6_DeleteCascades ==
    [][last'.op = "delete_mois" =>
          LET gone == {p.id : p \in db.mois \ db'.mois}
          IN /\ db'.mois \subseteq db.mois
             /\ Cardinality(gone) <= 1
             /\ db'.depenses = {r \in db.depenses : r.mois_id \notin gone}
             /\ last'.result = "success" => Cardinality(gone) = 1
             /\ last'.db_exc => gone = {}]_vars

\* a period that held two records was deleted
C6_Witness == last.op = "delete_mois" /\ last.result = "success" /\ last.d_depenses = -2

\* C7: every record row's mois_id is the id of a period row.
C7_RecordsReferencePeriods ==
    \A r \in db.depenses : \E p \in db.mois : p.id = r.mois_id

\* a period was deleted with its record while another period keeps one
C7_Witness == last.op = "delete_mois" /\ last.d_depenses = -1 /\ db.depenses # {}

\* C8: no two period rows share a name, and a call the store refused adds
\* no period row and answers an error.
C8_PeriodNamesUnique ==
    /\ \A p, q \in db.mois : p.nom = q.nom => p.id = q.id
    /\ last.op \in {"create_mois", "rename_mois", "duplicate_mois", "import_from_json"}
         /\ last.db_exc => last.d_mois = 0 /\ last.result = "error"

\* create_mois was refused for a name that is taken
C8_Witness == last.op = "create_mois" /\ last.db_exc /\ last.fail = 0 /\ db.mois # {}

\* C9: a whole-period operation that answers an error Result has changed
\* neither the active period, nor the canonical list, nor the displayed
\* list, nor the search term, nor the sort key.
C9_PeriodOpsFailClean ==
    [][last'.op \in {"create_mois", "load_mois", "delete_mois", "rename_mois", "duplicate_mois"}
          /\ last'.result = "error"
          => UNCHANGED <<mois_actuel, depenses, displayed_depenses, heap,
                         current_search_term, current_sort_key>>]_vars

\* C10: an update_expense or a set_salaire whose store write raises leaves
\* the fields of every record and the amount of the active period as they
\* were.
C10_StoreErrorLeavesMemory ==
    [][last'.op \in {"update_expense", "set_salaire"} /\ last'.db_exc
          => UNCHANGED <<mois_actuel, depenses, displayed_depenses, heap>>]_vars

PeriodOps == {"create_mois", "load_mois", "delete_mois", "rename_mois", "duplicate_mois"}

\* C11: a whole-period operation that succeeds has made exactly one
\* notify_observers call, and one that fails has made none
C11_OneEventPerPeriodOp ==
    last.op \in PeriodOps =>
        /\ last.result = "success" => Len(last.events) = 1
        /\ last.result = "error" => last.events = <<>>

\* another period than the active one bears the name
NameTaken(nom) ==
    /\ mois_actuel # <<>>
    /\ \E p \in db.mois : p.nom = nom /\ p.id # mois_actuel[1].id

\* C12: rename_mois to a name another period bears fails with the store's
\* error and changes nothing: the store (the stored name and the last-period
\* config value) and the active period in memory are as before, and no event
\* is sent
C12_RenameCollisionChangesNothing ==
    [][last'.op = "rename_mois" /\ NameTaken(strip(last'.arg.nom))
        => /\ last'.result = "error"
           /\ last'.db_exc
           /\ db' = db
           /\ mois_actuel' = mois_actuel
           /\ last'.events = <<>>]_vars

C12_Witness ==
    /\ last.op = "rename_mois"
    /\ last.db_exc
    /\ last.fail = 0
    /\ NameTaken(strip(last.arg.nom))
    /\ db.last_mois # strip(last.arg.nom)

\* C13: after a successful create_mois the new period is the active one and
\* the canonical list and the projection are both empty
C13_CreateActivatesEmpty ==
    last.op = "create_mois" /\ last.result = "success" =>
        /\ mois_actuel # <<>>
        /\ mois_actuel[1].nom = strip(last.arg.nom)
        /\ depenses = <<>>
        /\ displayed_depenses = <<>>

\* C14: after a successful load_mois the canonical list is the store's list
\* of that period, the search term is empty, the sort key is the default and
\* the projection holds the canonical records
C14_LoadResetsView ==
    last.op = "load_mois" /\ last.result = "success" =>
        /\ mois_actuel # <<>>
        /\ mois_actuel[1].nom = last.arg.nom
        /\ Canonical = ActiveRows
        /\ current_search_term = <<>>
        /\ current_sort_key = "date_desc"
        /\ Len(displayed_depenses) = Len(depenses)
        /\ Range(displayed_depenses) = Range(depenses)

\* C15: a successful delete_mois of the active period leaves no active
\* period, an empty canonical list and an empty projection; of another
\* period, it leaves the three as they were
C15_DeleteClearsOrKeeps ==
    [][last'.op = "delete_mois" /\ last'.result = "success"
        => IF mois_actuel # <<>> /\ mois_actuel[1].nom = last'.arg.nom
           THEN mois_actuel' = <<>> /\ depenses' = <<>> /\ displayed_depenses' = <<>>
           ELSE UNCHANGED <<mois_actuel, depenses, displayed_depenses>>]_vars

\* the store's records of a period, in id order
RowsOf(d, mois_id) == get_depenses_by_mois(d, mois_id)

\* duplicate_mois has returned success
Duplicated == last'.op = "duplicate_mois" /\ last'.result = "success"

\* C16: after a successful duplicate_mois the new period is the active one,
\* the canonical list is the store's list of the new period, the projection
\* holds the canonical records, the new period's records match the source's
\* one to one (nom, montant, categorie, date_depense, est_credit, est_fixe),
\* and the source period and its records are unchanged in the store
C16_DuplicateLoadsCopy ==
    [][Duplicated =>
        LET src == mois_actuel[1]
            a == RowsOf(db, src.id)
        IN /\ mois_actuel' # <<>>
           /\ mois_actuel'[1].nom = strip(last'.arg.nom)
           /\ mois_actuel'[1].id # src.id
           /\ Canonical' = ActiveRows'
           /\ Len(displayed_depenses') = Len(depenses')
           /\ Range(displayed_depenses') = Range(depenses')
           /\ Len(ActiveRows') = Len(a)
           /\ \A i \in 1..Len(a) :
                 /\ ActiveRows'[i].nom = a[i].nom
                 /\ ActiveRows'[i].montant = a[i].montant
                 /\ ActiveRows'[i].categorie = a[i].categorie
                 /\ ActiveRows'[i].date_depense = a[i].date_depense
                 /\ ActiveRows'[i].est_credit = a[i].est_credit
                 /\ ActiveRows'[i].est_fixe = a[i].est_fixe
           /\ RowsOf(db', src.id) = a
           /\ \E p \in db'.mois : p = [src EXCEPT !.salaire = p.salaire] ]_vars

\* the period duplicate_mois has added to the store
NewPeriod == CHOOSE p \in db'.mois : p \notin db.mois

\* C17: with reset_status on, every record copied by duplicate_mois has
\* effectue and emprunte off; with it off, every copy keeps the source
\* record's two flags
C17_ResetStatusHonoured ==
    [][Duplicated /\ last'.d_mois = 1 =>
        LET a == RowsOf(db, mois_actuel[1].id)
            b == RowsOf(db', NewPeriod.id)
        IN /\ Len(b) = Len(a)
           /\ \A i \in 1..Len(a) :
                 IF last'.arg.reset_status
                 THEN ~b[i].effectue /\ ~b[i].emprunte
                 ELSE b[i].effectue = a[i].effectue /\ b[i].emprunte = a[i].emprunte]_vars

\* a remove call has returned success and taken a record out of the canonical
\* list
Removed ==
    /\ last'.op \in {"remove_expense", "remove_expense_by_id"}
    /\ last'.result = "success"
    /\ Len(depenses') < Len(depenses)

\* the id of the record the call was asked to remove
RemovedId == IF last'.op = "remove_expense" THEN depenses[last'.arg.index]
             ELSE last'.arg.index

\* C18: after a successful remove of a record of the active period, by id or
\* by index, the record is in none of the canonical list, the projection and
\* the store, and every other record stays where it was in all three
C18_RemoveEverywhere ==
    [][Removed =>
        /\ RemovedId \notin Range(depenses')
        /\ RemovedId \notin Range(displayed_depenses')
        /\ \A r \in db'.depenses : r.id # RemovedId
        /\ \A y \in Range(depenses) \ {RemovedId} : y \in Range(depenses')
        /\ \A y \in (Range(displayed_depenses) \cap Range(depenses)) \ {RemovedId} :
              y \in Range(displayed_depenses')
        /\ \A r \in db.depenses : r.id # RemovedId => r \in db'.depenses]_vars

\* sub occurs in s
IsSubstring(sub, s) ==
    \E i \in 1..(Len(s) + 1) : \E j \in (i - 1)..Len(s) : SubSeq(s, i, j) = sub

\* C19: add_expense with an active period adds one row of that period to the
\* store, appends the record to the canonical list, and appends it to the
\* projection exactly when the search term is empty or occurs in the
\* record's lower-cased name, the entries already shown keeping their
\* places; when the store write fails, the store and both lists are as before
C19_AddAppends ==
    [][last'.op = "add_expense" /\ mois_actuel # <<>> =>
        IF last'.db_exc
        THEN /\ db'.depenses = db.depenses
             /\ UNCHANGED <<depenses, displayed_depenses>>
        ELSE \E row \in db'.depenses :
                /\ row \notin db.depenses
                /\ db'.depenses = db.depenses \cup {row}
                /\ row.mois_id = mois_actuel[1].id
                /\ depenses' = Append(depenses, row.id)
                /\ heap'[row.id] = Depense(row)
                /\ displayed_depenses' =
                      IF current_search_term = <<>>
                         \/ IsSubstring(current_search_term, lower(row.nom))
                      THEN Append(displayed_depenses, row.id)
                      ELSE displayed_depenses]_vars

C19_Witness ==
    /\ last.op = "add_expense"
    /\ last.result = "success"
    /\ current_search_term # <<>>
    /\ Len(depenses) = 3
    /\ depenses[3] \notin Range(displayed_depenses)
    /\ depenses[2] \in Range(displayed_depenses)

\* the record update_expense leaves when it is given the form f
Edited(rec, f) ==
    LET v == validate_expense_data(f.nom, f.montant_str, f.categorie)
    IN [rec EXCEPT !.nom = v.nom, !.montant = v.montant, !.categorie = v.categorie,
                   !.date_depense = f.date_depense, !.effectue = f.effectue,
                   !.emprunte = f.emprunte, !.est_fixe = f.est_fixe]

\* C20: a successful update_expense(index, ...) changes the record whose id
\* the projection shows at that position, in the canonical list and in the
\* store, to the new field values, and changes no other record, no store row
\* of another id and neither list
C20_UpdateByIdentity ==
    [][last'.op = "update_expense" /\ last'.result = "success" =>
        /\ last'.arg.index \in 1..Len(displayed_depenses)
        /\ LET x == displayed_depenses[last'.arg.index]
           IN /\ x \in Range(depenses)
              /\ \E f \in EditForms : heap'[x] = Edited(heap[x], f)
              /\ \A y \in DOMAIN heap \ {x} : heap'[y] = heap[y]
              /\ \E r \in db'.depenses : r.id = x /\ Depense(r) = heap'[x]
              /\ {r \in db'.depenses : r.id # x} = {r \in db.depenses : r.id # x}
              /\ UNCHANGED <<depenses, displayed_depenses, mois_actuel>>]_vars

C20_Witness ==
    /\ last.op = "update_expense"
    /\ last.result = "success"
    /\ Len(depenses) = 3
    /\ Len(displayed_depenses) = 2
    /\ current_search_term # <<>>
    /\ depenses[last.arg.index] # displayed_depenses[last.arg.index]

\* C21: in every state every record of the projection is, by identity, a
\* record of the canonical list
C21_ProjectionWithinCanonical == Range(displayed_depenses) \subseteq Range(depenses)

\* the two letters are one letter in either case
SameLetter(a, b) ==
    \/ a = b
    \/ \E pair \in {<<"A", "a">>, <<"B", "b">>, <<"D", "d">>, <<"F", "f">>, <<"J", "j">>} :
           {a, b} = {pair[1], pair[2]}

\* term occurs in nom when letter case is ignored
ContainsIgnoringCase(term, nom) ==
    \E i \in 0..(Len(nom) - Len(term)) :
        \A k \in 1..Len(term) : SameLetter(term[k], nom[i + k])

\* C26: after filter_depenses_by_name(term) the projection holds exactly the
\* canonical records whose name contains term as a case-insensitive
\* substring, each once, whatever the current sort key
C26_FilterIgnoresCase ==
    last.op = "filter_depenses_by_name" =>
        /\ Range(displayed_depenses) =
              {x \in Range(depenses) : ContainsIgnoringCase(last.arg.nom, heap[x].nom)}
        /\ Cardinality(Range(displayed_depenses)) = Len(displayed_depenses)

C26_Witness ==
    /\ last.op = "filter_depenses_by_name"
    /\ last.arg.nom = <<"B">>
    /\ current_sort_key = "nom_asc"
    /\ Len(depenses) = 3
    /\ Len(displayed_depenses) = 2

\* the two records have the same sort key
SameKey(sort_key, a, b) ==
    CASE sort_key \in {"montant_desc", "montant_asc"} -> a.montant = b.montant
      [] sort_key \in {"nom_asc", "nom_desc"} -> lower(a.nom) = lower(b.nom)
      [] sort_key \in {"effectue_desc", "effectue_asc"} -> a.effectue = b.effectue
      [] sort_key = "est_fixe_desc" -> a.est_fixe = b.est_fixe
      [] sort_key = "type" -> a.est_credit = b.est_credit /\ a.nom = b.nom
      [] OTHER -> a.date_depense = b.date_depense

\* C27: after sort_depenses(key), two records of the projection that have
\* the same sort key stand in the order they have in the canonical list
C27_SortIsStable ==
    last.op = "sort_depenses" =>
        \A i, j \in 1..Len(displayed_depenses) :
            /\ i < j
            /\ SameKey(current_sort_key, heap[displayed_depenses[i]],
                       heap[displayed_depenses[j]])
            => /\ displayed_depenses[i] \in Range(depenses)
               /\ displayed_depenses[j] \in Range(depenses)
               /\ IndexOf(depenses, displayed_depenses[i])
                    < IndexOf(depenses, displayed_depenses[j])

C27_Witness ==
    /\ last.op = "sort_depenses"
    /\ current_sort_key = "montant_desc"
    /\ Len(displayed_depenses) = 3
    /\ displayed_depenses # depenses
    /\ \E i, j \in 1..3 :
          i < j /\ heap[displayed_depenses[i]].montant = heap[displayed_depenses[j]].montant

\* the sum of the amounts of a set of rows or records
RECURSIVE SumMontant(_)
SumMontant(S) == IF S = {} THEN 0
                 ELSE LET r == CHOOSE r \in S : TRUE IN r.montant + SumMontant(S \ {r})

\* the row of a sheet or of a JSON file has a label, a date and a positive
\* numeric amount
ValidRow(row) ==
    IF "date_val" \in DOMAIN row
    THEN /\ row.nom \notin {NULL, <<>>}
         /\ row.date_val # ""
         /\ \E cell \in {row.debit, row.credit} : cell.t = "num" /\ cell.v > 0
    ELSE /\ "nom" \in DOMAIN row /\ row.nom \notin {NULL, <<>>}
         /\ "date_depense" \in DOMAIN row /\ row.date_depense # ""
         /\ "montant" \in DOMAIN row /\ row.montant > 0

\* how many of the rows the import read are valid
ValidCount(rows) == Cardinality({i \in 1..Len(rows) : ValidRow(rows[i])})

Imports == {"import_from_json", "import_from_excel"}

\* the store's rows of the period the import created
ImportedRows == {r \in db'.depenses : r.mois_id = NewPeriod.id}

\* C22: after a successful import (Excel or JSON) the new period has as many
\* rows as the input had valid rows, and its salaire is the sum of the
\* amounts of its credit rows
C22_ImportCountsAndSeedsAmountIn ==
    [][last'.op \in Imports /\ last'.result = "success" =>
        /\ Cardinality(ImportedRows) = ValidCount(last'.arg.rows)
        /\ NewPeriod.salaire = SumMontant({r \in ImportedRows : r.est_credit})]_vars

\* C23: an import of a readable input under a free name succeeds whatever
\* rows are invalid, persists exactly the valid rows, and reports the created
\* and the skipped count, which add up to the number of input rows
C23_InvalidRowsSkippedAndCounted ==
    [][/\ last'.op \in Imports
       /\ last'.batch > 0
       /\ last'.fail = 0
       /\ ~\E p \in db.mois : p.nom = strip(last'.arg.nom)
       => /\ last'.result = "success"
          /\ Cardinality(ImportedRows) = ValidCount(last'.arg.rows)
          /\ last'.data = [created |-> ValidCount(last'.arg.rows),
                           skipped |-> last'.batch - ValidCount(last'.arg.rows)]]_vars

\* the two lists match one to one in nom, montant, categorie and est_credit
SameRecords(a, b) ==
    /\ Len(a) = Len(b)
    /\ \A i \in 1..Len(a) : /\ a[i].nom = b[i].nom
                             /\ a[i].montant = b[i].montant
                             /\ a[i].categorie = b[i].categorie
                             /\ a[i].est_credit = b[i].est_credit

\* C24: export_to_json writes the records of the active period, and
\* import_from_json of the file the export wrote creates a period whose
\* records match the file's one to one, in nom, montant, categorie and
\* est_credit: together, the imported records equal the exported period's
C24_ExportImportRoundTrip ==
    [][/\ last'.op = "export_to_json" /\ last'.result = "success"
          => /\ fichier'.found
             /\ SameRecords(RowsOf(db, mois_actuel[1].id), fichier'.data.depenses)
       /\ last'.op = "import_from_json" /\ last'.result = "success"
            /\ fichier.found /\ last'.arg.rows = fichier.data.depenses
          => SameRecords(fichier.data.depenses, RowsOf(db', NewPeriod.id))]_vars

C24_Witness ==
    /\ last.op = "import_from_json"
    /\ last.result = "success"
    /\ fichier.found
    /\ last.arg.rows = fichier.data.depenses
    /\ Len(last.arg.rows) = 3
    /\ \E i, j \in 1..3 : last.arg.rows[i].est_credit /\ ~last.arg.rows[j].est_credit
    /\ Len(depenses) = 3

\* C25: the summary handed over with the projection is computed from the
\* projection alone: the number of records, the sum of the non-credit
\* amounts, of the credit amounts, of the done and of the fixed non-credit
\* amounts, of the borrowed amounts, not done = debits - done and
\* remaining = credits - debits
C25_SummaryOfList ==
    last.op \in {"filter_depenses_by_name", "sort_depenses"} =>
        LET recs == {heap[x] : x \in Range(displayed_depenses)}
            debits == {r \in recs : ~r.est_credit}
            credits == {r \in recs : r.est_credit}
        IN /\ last.data.nombre_depenses = Len(displayed_depenses)
           /\ last.data.total_depenses = SumMontant(debits)
           /\ last.data.total_revenus = SumMontant(credits)
           /\ last.data.total_effectue = SumMontant({r \in debits : r.effectue})
           /\ last.data.total_non_effectue
                = SumMontant(debits) - SumMontant({r \in debits : r.effectue})
           /\ last.data.total_depenses_fixes = SumMontant({r \in debits : r.est_fixe})
           /\ last.data.total_emprunte = SumMontant({r \in recs : r.emprunte})
           /\ last.data.argent_restant = SumMontant(credits) - SumMontant(debits)

\* debits of 10 and 30 and a credit of 20 (in tenths)
C25_Witness ==
    /\ last.op = "filter_depenses_by_name"
    /\ {heap[x].montant : x \in {y \in Range(displayed_depenses) : ~heap[y].est_credit}}
         = {100, 300}
    /\ \E x \in Range(displayed_depenses) : heap[x].est_credit /\ heap[x].montant = 200
    /\ last.data.nombre_depenses = 3
    /\ last.data.total_depenses = 400
    /\ last.data.total_revenus = 200
    /\ last.data.argent_restant = -200

\* C29: every record add_expense or update_expense creates or changes, in
\* the store and in memory, has an amount of zero or more
C29_NegativeAmountsRejected ==
    [][last'.op \in {"add_expense", "update_expense"} =>
        /\ \A r \in db'.depenses \ db.depenses : r.montant >= 0
        /\ \A x \in DOMAIN heap' :
              x \notin DOMAIN heap \/ heap'[x] # heap[x] => heap'[x].montant >= 0]_vars

\* C28: when notify_observers delivers an event, every registered observer
\* has its on_model_changed called, also those registered behind one that
\* raises
C28_FailingObserverIsolated ==
    last.op = "notify_observers" =>
        Range(last.data) = {observers[i].name : i \in 1..Len(observers)}

\* C30: update_depense of an id no row of the store bears raises and changes
\* no row
C30_UpdateAbsentIdFails ==
    [][/\ last'.op = "update_depense"
       /\ ~\E r \in db.depenses : r.id = last'.arg.index
       => last'.result = "raise" /\ db' = db]_vars

\* C31: a run of duplicate_mois or import_new_mois ends its transaction
\* exactly once: a successful run by one commit, a failed run (the return
\* for a missing original included) by one rollback; the connection's
\* context adds no second commit or rollback
C31_TransactionEndsOnce ==
    [][last'.op \in {"import_new_mois", "duplicate_mois"}
       => last'.data.tx = IF last'.result = "success" THEN <<"commit">>
                          ELSE <<"rollback">>]_vars

\* C37: import_new_mois and duplicate_mois say that the name already exists
\* only when a period of that name is in the store
C37_ExistsOnlyWhenNameTaken ==
    [][/\ last'.op \in {"import_new_mois", "duplicate_mois"}
       /\ last'.data.exists
       => \E p \in db.mois : p.nom = last'.arg.nom]_vars

\* C32: remove_expense_by_id of an id that no record of the canonical list
\* bears (a record of another period, or no active period) leaves the
\* store's record rows unchanged
C32_RemoveByIdOnlyActive ==
    [][/\ last'.op = "remove_expense_by_id"
       /\ ~\E i \in 1..Len(depenses) : heap[depenses[i]].id = last'.arg.index
       => db'.depenses = db.depenses]_vars

\* C33: an operation of BudgetModel that returns an error leaves the store
\* as it was
C33_ErrorLeavesStore ==
    [][last'.result = "error" => db' = db]_vars

\* C39: when a period is active the store has a period row with its id and
\* its name
C39_ActivePeriodInStore ==
    mois_actuel # <<>>
    => \E p \in db.mois : p.id = mois_actuel[1].id /\ p.nom = mois_actuel[1].nom

C39_Witness ==
    /\ last.op \in {"delete_mois", "rename_mois"}
    /\ last.result = "success"
    /\ last.d_mois = 0 => mois_actuel # <<>> /\ mois_actuel[1].nom = strip(last.arg.nom)
    /\ last.d_mois < 0 => mois_actuel # <<>> /\ db.mois # {}
    /\ db.seq_mois = 2

C34_LastSessionLoads ==
    [][last'.op = "load_data_from_last_session" /\ db.mois # {}
       => /\ last'.result = "success"
          /\ mois_actuel' # <<>>
          /\ mois_actuel'[1] \in db.mois]_vars

\* C35: whatever the interleaving of the worker's import_from_excel with
\* add_expense and load_mois of the main thread, once the calls have
\* returned every record of the canonical list is a record of the active
\* period
C35_CanonicalOfActivePeriod ==
    ctl.worker = "idle" /\ ctl.main = "idle"
    => \A i \in 1..Len(depenses) :
           /\ mois_actuel # <<>>
           /\ \A r \in db.depenses :
                  r.id = heap[depenses[i]].id => r.mois_id = mois_actuel[1].id

\* C36: once handle_import_from_excel has disabled the month actions and
\* started the worker, the actions are enabled again and the progress bar
\* is hidden at some later time
C36_ReenabledEventually ==
    (ctl.worker = "run") ~> (ctl.enabled /\ ~ctl.progress)

C36_Witness ==
    /\ last.op = "do_load"
    /\ last.result = "error"
    /\ ctl.enabled /\ ~ctl.progress
====
